---- MODULE Spec2Model ----
(***************************************************************************)
(* Game thread bot of r/NYKnicks (src/game_thread_bot.py): the phase       *)
(* classifier `_get_current_game`, the thread reconciler                   *)
(* `_create_or_update_game_thread` and the top-level error handler, run    *)
(* against a forum, a clock and an upstream schedule feed.                 *)
(*                                                                         *)
(* Time is in seconds.  Strings the code inspects character by character   *)
(* (scores, bodies) are sequences of one-character strings; titles are     *)
(* sequences of tokens, the first token being the phase prefix if any.     *)
(***************************************************************************)
EXTENDS Integers, Sequences, FiniteSets, TLC

----------------------------------------------------------------------------
(* Bounds of the model *)

\* number of bot invocations (processes started by the scheduler)
MaxRuns == 2
\* number of clock advances
MaxTicks == 2
\* length of the schedules given to the classifier on its own
MaxGames == 2

----------------------------------------------------------------------------
(* Program constants *)

GAME_THREAD_PREFIX == "[Game Thread]"
POST_GAME_PREFIX == "[Post Game Thread]"
MAX_POST_AGE_HOURS == 6
\* timedelta(hours=1), in seconds
HOUR == 3600
\* subreddit.new(limit=300)
NEW_LIMIT == 300
\* the account the bot posts as, and some other forum user
BOT == "nyknicks-automod"
FAN == "fan"

DO_GAME_THREAD == "DO_GAME_THREAD"
DO_POST_GAME_THREAD == "DO_POST_GAME_THREAD"
DO_NOTHING == "DO_NOTHING"
Action == {DO_GAME_THREAD, DO_POST_GAME_THREAD, DO_NOTHING}

VARIABLES
  clock,    \* the wall clock, seconds
  ticks,    \* how many times the clock advanced
  feed,     \* the upstream schedule, as nba_service.schedule returns it
  boxscore, \* the upstream boxscore of the current game: which version
  forum,    \* the subreddit's posts, oldest first
  runs,     \* one record per invocation of the bot
  cin,      \* classifier on its own: the inputs
  cout      \* classifier on its own: the result

vars == <<clock, ticks, feed, boxscore, forum, runs, cin, cout>>

----------------------------------------------------------------------------
(* Python helpers *)

Max(S) == CHOOSE x \in S : \A y \in S : y <= x

\* bool(s) of a str: non-empty
Truthy(s) == Len(s) > 0

\* s[i] of a Python list: defined for -len <= i < len, else IndexError
PyHasIndex(s, i) == i >= -Len(s) /\ i < Len(s)
PyGet(s, i) == IF i >= 0 THEN s[i + 1] ELSE s[Len(s) + i + 1]

\* what str.strip() takes for whitespace (str.isspace): space, \n, \t, \r,
\* \f, and, written as the characters themselves, U+000B, U+001C to
\* U+001F, U+0085, U+00A0 and U+1680; the spaces from U+2000 on (U+2000 to
\* U+200A, U+2028, U+2029, U+202F, U+205F, U+3000) cannot be written in a
\* string of this language, so no text here holds one
Whitespace ==
  {" ", "\n", "\t", "\r", "\f",
   "", "", "", "", "", "", " ", " "}

RECURSIVE lstrip(_)
lstrip(s) ==
  IF s # <<>> /\ Head(s) \in Whitespace THEN lstrip(Tail(s)) ELSE s

RECURSIVE rstrip(_)
rstrip(s) ==
  IF s # <<>> /\ s[Len(s)] \in Whitespace
    THEN rstrip(SubSeq(s, 1, Len(s) - 1))
    ELSE s

\* str.strip()
strip(s) == rstrip(lstrip(s))

\* str.startswith(q), on token sequences
startswith(title, q) == Len(title) >= 1 /\ title[1] = q

----------------------------------------------------------------------------
(* The phase classifier *)

IndexError == [kind |-> "IndexError"]
Returned(action, game) == [kind |-> "return", action |-> action, game |-> game]
\* the None the code returns for the game of DO_NOTHING
NoGame == [gameId |-> 0]

\* line 110: the pre-game check of "has a score"
has_score_pre(game) == Truthy(game.vTeam.score) \/ Truthy(game.hTeam.score)

\* line 118: the post-game check of "has a score"
has_score_post(game) == Truthy(game.vTeam.score \o game.hTeam.score)

\* the pre-game rule with the hour's boundary left out
PreGameRuleStrict(game, now) ==
  game.startTimeUTC - HOUR < now /\ ~has_score_pre(game)

\* a pre-game rule that ends at the game's start
PreGameRuleUntilStart(game, now) ==
  /\ game.startTimeUTC - HOUR <= now /\ now <= game.startTimeUTC
  /\ ~has_score_pre(game)

\* line 111
PreGameRule(game, now) ==
  game.startTimeUTC - HOUR <= now /\ ~has_score_pre(game)

\* the post-game rule with the 6-hour boundary left out
PostGameRuleStrict(game, now) ==
  game.startTimeUTC + MAX_POST_AGE_HOURS * HOUR > now /\ has_score_post(game)

\* line 119
PostGameRule(game, now) ==
  game.startTimeUTC + MAX_POST_AGE_HOURS * HOUR >= now /\ has_score_post(game)

\* the classifier with its two rules tried in the other order
get_current_game_post_first(schedule, num_games_postponed, now) ==
  LET last_played_idx ==
        schedule.lastStandardGamePlayedIndex + num_games_postponed
      games == schedule.standard
      enters == Len(games) > last_played_idx + 1
  IN  IF ~PyHasIndex(games, last_played_idx) THEN IndexError
      ELSE IF PostGameRule(PyGet(games, last_played_idx), now)
        THEN Returned(DO_POST_GAME_THREAD, PyGet(games, last_played_idx))
      ELSE IF enters /\ ~PyHasIndex(games, last_played_idx + 1) THEN IndexError
      ELSE IF enters /\ PreGameRule(PyGet(games, last_played_idx + 1), now)
        THEN Returned(DO_GAME_THREAD, PyGet(games, last_played_idx + 1))
      ELSE Returned(DO_NOTHING, NoGame)

\* lines 99-122
get_current_game(schedule, num_games_postponed, now) ==
  LET last_played_idx ==
        schedule.lastStandardGamePlayedIndex + num_games_postponed
      games == schedule.standard
      enters == Len(games) > last_played_idx + 1
  IN  IF enters /\ ~PyHasIndex(games, last_played_idx + 1) THEN IndexError
      ELSE IF enters /\ PreGameRule(PyGet(games, last_played_idx + 1), now)
        THEN Returned(DO_GAME_THREAD, PyGet(games, last_played_idx + 1))
      ELSE IF ~PyHasIndex(games, last_played_idx) THEN IndexError
      ELSE IF PostGameRule(PyGet(games, last_played_idx), now)
        THEN Returned(DO_POST_GAME_THREAD, PyGet(games, last_played_idx))
      ELSE Returned(DO_NOTHING, NoGame)

----------------------------------------------------------------------------
(* The classifier on its own: inputs drawn from bounded sets *)

EMPTY == <<>>
ScorePairs ==
  { <<EMPTY, EMPTY>>, <<<<"0">>, EMPTY>>, <<EMPTY, <<"1", "0", "2">>>>,
    <<<<"1", "1", "0">>, <<"1", "0", "2">>>> }

\* start instants around the two boundaries, relative to now = 0
StartTimes ==
  { -(MAX_POST_AGE_HOURS * HOUR) - 1, -(MAX_POST_AGE_HOURS * HOUR),
    -(2 * HOUR), HOUR, HOUR + 1 }

Game(id, start, sc) ==
  [gameId |-> id, startTimeUTC |-> start,
   vTeam |-> [score |-> sc[1]], hTeam |-> [score |-> sc[2]]]

GameLists ==
  UNION { { [i \in 1..n |-> Game(i, st[i], sc[i])] :
              st \in [1..n -> StartTimes], sc \in [1..n -> ScorePairs] } :
          n \in 0..MaxGames }

Schedules ==
  { [lastStandardGamePlayedIndex |-> l, standard |-> g] :
      l \in -2..MaxGames, g \in GameLists }

Offsets == {0, 1}

NoInput == [kind |-> "none"]
Pending == [kind |-> "pending"]

ClassifierInputs ==
  { [kind |-> "input", schedule |-> s, num_games_postponed |-> o] :
      s \in Schedules, o \in Offsets }

----------------------------------------------------------------------------
(* The forum, the feed and the runs *)

Scored == <<<<"1", "1", "0">>, <<"1", "0", "2">>>>
Unscored == <<EMPTY, EMPTY>>

\* yesterday's game, played, and tonight's, tipping off in an hour
FeedInit ==
  [lastStandardGamePlayedIndex |-> 0,
   standard |-> << Game(1, -(24 * HOUR), Scored), Game(2, HOUR, Unscored) >>]

\* the text of the body, apart from the line score, that the renderer
\* builds from each version of the boxscore: the second differs from the
\* first in trailing whitespace only
Bodies == << <<"a">>, <<"a", "\n">>, <<"b">> >>

Runs == 1..MaxRuns

RunInit ==
  [pc |-> "idle", now |-> 0, action |-> DO_NOTHING, game |-> 0,
   title |-> <<>>,
   body |-> <<>>, thread |-> 0, selftext |-> <<>>, seen |-> 0,
   result |-> "none", logged |-> 0, exit |-> -1,
   writes |-> 0]

\* what is left of a process once it has ended: its locals are gone
Ended(run) ==
  [RunInit EXCEPT !.pc = "exit", !.exit = 0, !.logged = run.logged,
                  !.writes = run.writes]

\* by, seen and editedBy are history: the run that submitted the post, how
\* many posts the forum held when that run listed it, the runs that edited
\* it; slot is the place of a pinned post among the pinned, 0 for none
Post(title, body, author, created, by, seen) ==
  [title |-> title, selftext |-> body, author |-> author,
   created_utc |-> created, stickied |-> FALSE, slot |-> 0,
   by |-> by, seen |-> seen, editedBy |-> {}]

\* a post of another user, titled like a game thread
FanPost == Post(<<GAME_THREAD_PREFIX, "x">>, <<"x">>, FAN, 0, 0, 0)

\* the prefix of the other phase
PrefixSwapped(act) ==
  IF act = DO_GAME_THREAD THEN POST_GAME_PREFIX ELSE GAME_THREAD_PREFIX

\* line 628
Prefix(act) ==
  IF act = DO_GAME_THREAD THEN GAME_THREAD_PREFIX ELSE POST_GAME_PREFIX

\* obsolete already at exactly MAX_POST_AGE_HOURS
is_obsolete_inclusive(created_utc, now) ==
  created_utc + MAX_POST_AGE_HOURS * HOUR <= now

\* line 632
is_obsolete(created_utc, now) ==
  created_utc + MAX_POST_AGE_HOURS * HOUR < now

\* an author test that never succeeds
is_bot_post_never(submission, username) == FALSE

\* line 633
is_bot_post(submission, username) == submission.author = username

\* line 634
Matches(submission, q, username, now) ==
  /\ startswith(submission.title, q)
  /\ is_bot_post(submission, username)
  /\ ~is_obsolete(submission.created_utc, now)

\* subreddit.new(limit=300): the indices of the newest posts
NewListing(f) == { k \in 1..Len(f) : k > Len(f) - NEW_LIMIT }

\* a scan that goes through the listing from its oldest entry
FindThreadOldest(f, act, username, now) ==
  LET hits == { k \in NewListing(f) : Matches(f[k], Prefix(act), username, now) }
  IN  IF hits = {} THEN 0 ELSE CHOOSE k \in hits : \A j \in hits : k <= j

\* lines 629-636: the newest listed post that matches, 0 for None
FindThread(f, act, username, now) ==
  LET hits == { k \in NewListing(f) : Matches(f[k], Prefix(act), username, now) }
  IN  IF hits = {} THEN 0 ELSE Max(hits)

----------------------------------------------------------------------------
(* int(), the defeat verb and the titles of the two threads *)

Min2(a, b) == IF a <= b THEN a ELSE b
Abs(n) == IF n < 0 THEN -n ELSE n
Elems(s) == { s[i] : i \in 1..Len(s) }

\* s[a:b] and s[a:] of a Python list, 0 <= a
PySlice(s, a, b) == SubSeq(s, a + 1, Min2(b, Len(s)))
PySliceFrom(s, a) == SubSeq(s, a + 1, Len(s))

ValueError == [kind |-> "ValueError"]

\* whether a call returned that exception
Raised(x) == "kind" \in DOMAIN x /\ x.kind = "ValueError"

\* the characters int() reads as the decimal digit d, at index d + 1: the
\* ASCII digit and the Unicode decimal digits (category Nd) that a string of
\* this module can hold, those of the blocks starting at U+06F0, U+07C0,
\* U+09E6, U+0AE6, U+0BE6, U+0CE6, U+0DE6, U+0ED0, U+1090, U+17E0, U+19D0,
\* U+1A80, U+1A90, U+1BB0, U+A8D0, U+A9D0, U+A9F0, U+ABF0
DECIMAL_DIGITS ==
  <<
    {"0", "۰", "߀", "০", "૦", "௦", "೦", "෦", "໐", "႐",
     "០", "᧐", "᪀", "᪐", "᮰", "꣐", "꧐", "꧰", "꯰"},
    {"1", "۱", "߁", "১", "૧", "௧", "೧", "෧", "໑", "႑",
     "១", "᧑", "᪁", "᪑", "᮱", "꣑", "꧑", "꧱", "꯱"},
    {"2", "۲", "߂", "২", "૨", "௨", "೨", "෨", "໒", "႒",
     "២", "᧒", "᪂", "᪒", "᮲", "꣒", "꧒", "꧲", "꯲"},
    {"3", "۳", "߃", "৩", "૩", "௩", "೩", "෩", "໓", "႓",
     "៣", "᧓", "᪃", "᪓", "᮳", "꣓", "꧓", "꧳", "꯳"},
    {"4", "۴", "߄", "৪", "૪", "௪", "೪", "෪", "໔", "႔",
     "៤", "᧔", "᪄", "᪔", "᮴", "꣔", "꧔", "꧴", "꯴"},
    {"5", "۵", "߅", "৫", "૫", "௫", "೫", "෫", "໕", "႕",
     "៥", "᧕", "᪅", "᪕", "᮵", "꣕", "꧕", "꧵", "꯵"},
    {"6", "۶", "߆", "৬", "૬", "௬", "೬", "෬", "໖", "႖",
     "៦", "᧖", "᪆", "᪖", "᮶", "꣖", "꧖", "꧶", "꯶"},
    {"7", "۷", "߇", "৭", "૭", "௭", "೭", "෭", "໗", "႗",
     "៧", "᧗", "᪇", "᪗", "᮷", "꣗", "꧗", "꧷", "꯷"},
    {"8", "۸", "߈", "৮", "૮", "௮", "೮", "෮", "໘", "႘",
     "៨", "᧘", "᪈", "᪘", "᮸", "꣘", "꧘", "꧸", "꯸"},
    {"9", "۹", "߉", "৯", "૯", "௯", "೯", "෯", "໙", "႙",
     "៩", "᧙", "᪉", "᪙", "᮹", "꣙", "꧙", "꧹", "꯹"}
  >>

IsDigit(c) == \E d \in 0..9 : c \in DECIMAL_DIGITS[d + 1]

DigitValue(c) == CHOOSE d \in 0..9 : c \in DECIMAL_DIGITS[d + 1]

\* the value of a string of decimal digits, the empty one counting 0
RECURSIVE DigitsValue(_)
DigitsValue(s) ==
  IF s = <<>> THEN 0
  ELSE 10 * DigitsValue(SubSeq(s, 1, Len(s) - 1)) + DigitValue(s[Len(s)])

\* the whitespace int() drops around the text: that of str.strip() without
\* the separators U+001C to U+001F, which int() refuses
IntWhitespace == Whitespace \ {"", "", "", ""}

RECURSIVE IntLeft(_)
IntLeft(s) ==
  IF s # <<>> /\ Head(s) \in IntWhitespace THEN IntLeft(Tail(s)) ELSE s

RECURSIVE IntRight(_)
IntRight(s) ==
  IF s # <<>> /\ s[Len(s)] \in IntWhitespace
  THEN IntRight(SubSeq(s, 1, Len(s) - 1)) ELSE s

\* the text int() reads
IntText(s) == IntRight(IntLeft(s))
IntSigned(s) == IntText(s) # <<>> /\ IntText(s)[1] \in {"+", "-"}
IntDigits(s) == IF IntSigned(s) THEN Tail(IntText(s)) ELSE IntText(s)

\* whether int(s) of a str returns: after an optional sign, decimal digits,
\* at least one, with single underscores allowed between digits
IsInt(s) ==
  LET d == IntDigits(s)
  IN  /\ d # <<>>
      /\ \A i \in 1..Len(d) : IsDigit(d[i]) \/ d[i] = "_"
      /\ d[1] # "_" /\ d[Len(d)] # "_"
      /\ \A i \in 1..(Len(d) - 1) : ~(d[i] = "_" /\ d[i + 1] = "_")

\* int(s) of a str: its value, or ValueError (as for the empty string)
int(s) ==
  IF ~IsInt(s) THEN ValueError
  ELSE LET n == DigitsValue(SelectSeq(IntDigits(s), IsDigit))
       IN  IF IntText(s)[1] = "-" THEN -n ELSE n

\* lines 28-46, as Python reads them: with no comma between them, the
\* literals 'massacre' and 'obliterate' are one string, and the list has 16
\* entries
DEFEAT_SYNONYMS ==
  << "defeat", "beat", "triumph over", "blow out", "level out", "destroy",
     "crush", "walk all over", "exterminate", "slaughter",
     "massacreobliterate", "eviscerate", "annihilate", "edge out",
     "steal one against", "hang on to defeat" >>

\* random.choice(seq): any entry
random_choice(seq) == Elems(seq)

Verb(verb) == [kind |-> "verb", verb |-> verb]

\* lines 276-292: what the method can give, each verb it can return, or the
\* ValueError of int() in lines 278-279
build_defeat_synonym(home_team_name, hTeam_score, vTeam_score) ==
  IF ~IsInt(hTeam_score) \/ ~IsInt(vTeam_score) THEN {ValueError}
  ELSE
  LET hscore == int(hTeam_score)
      vscore == int(vTeam_score)
      knicks_win == \/ home_team_name = "knicks" /\ hscore > vscore
                    \/ home_team_name # "knicks" /\ vscore > hscore
      verbs ==
        IF knicks_win
          THEN IF Abs(hscore - vscore) < 3
                 THEN random_choice(PySlice(DEFEAT_SYNONYMS, 14, 16))
               ELSE IF Abs(hscore - vscore) < 6
                 THEN random_choice(PySliceFrom(DEFEAT_SYNONYMS, 15))
               ELSE IF Abs(hscore - vscore) > 40
                 THEN random_choice(PySlice(DEFEAT_SYNONYMS, 9, 14))
               ELSE IF Abs(hscore - vscore) > 20
                 THEN random_choice(PySlice(DEFEAT_SYNONYMS, 3, 9))
               ELSE random_choice(PySlice(DEFEAT_SYNONYMS, 0, 3))
          ELSE random_choice(PySlice(DEFEAT_SYNONYMS, 0, 2))
  IN  { Verb(v) : v \in verbs }

\* lines 261-266: the words for overtime, from the visitors' line score
maybe_overtime(quarters) ==
  IF quarters = 5 THEN <<"in OT">>
  ELSE IF quarters > 5 THEN <<"in", quarters - 4, "OTs">>
  ELSE <<>>

\* a team as the title names it: its full name and its record
Named(team) == [name |-> team.fullName, record |-> <<team.win, team.loss>>]

\* lines 234-269: the titles the method can give, one for each verb that
\* _build_defeat_synonym (line 243) can return, or the ValueError that
\* int() of a score raises there
build_postgame_title(bs) ==
  LET home_team == bs.basicGameData.hTeam
      road_team == bs.basicGameData.vTeam
      defeats == build_defeat_synonym(home_team.urlName, home_team.score,
                                      road_team.score)
      home_team_score == int(home_team.score)
      road_team_score == int(road_team.score)
      home_won == home_team_score > road_team_score
  IN  IF ValueError \in defeats THEN {ValueError}
      ELSE { [kind |-> "title",
              prefix |-> POST_GAME_PREFIX,
              winners |-> Named(IF home_won THEN home_team ELSE road_team),
              defeat |-> d.verb,
              losers |-> Named(IF home_won THEN road_team ELSE home_team),
              maybe_overtime |-> maybe_overtime(Len(road_team.linescore)),
              score |-> << Max({road_team_score, home_team_score}),
                           Min2(road_team_score, home_team_score) >>] :
               d \in defeats }

\* a row of the table is the sequence of its cells; a period's score is the
\* string the feed gives, compared and printed whole
AssertionError == [kind |-> "AssertionError"]
None == [kind |-> "None"]

\* _points with the current period itself taken as not yet started
points_from_current(linescore, current_period, requested_period) ==
  LET pts == IF Len(linescore) > requested_period - 1
               THEN linescore[requested_period].score
               ELSE "-"
  IN  IF pts = "0" /\ requested_period >= current_period /\ current_period <= 4
        THEN "-"
        ELSE pts

\* lines 596-617
points(linescore, current_period, requested_period) ==
  LET pts == IF Len(linescore) > requested_period - 1
               THEN linescore[requested_period].score
               ELSE "-"
  IN  IF pts = "0" /\ requested_period > current_period /\ current_period <= 4
        THEN "-"
        ELSE pts

\* line 503: the heading of a period's column
PeriodHeading(period) ==
  IF period < 5 THEN [label |-> "Q", n |-> period]
                ELSE [label |-> "OT", n |-> period - 4]

\* lines 476-514
build_linescore(basic_game_data) ==
  LET current_period == int(basic_game_data.period.current)
      home_team == basic_game_data.hTeam
      home_score == home_team.linescore
      road_team == basic_game_data.vTeam
      road_score == road_team.linescore
      num_periods == Len(home_score)
      columns == Max({4, num_periods})
  IN  IF ~IsInt(basic_game_data.period.current) THEN ValueError
      ELSE IF Len(home_score) # Len(road_score) THEN AssertionError
      ELSE IF num_periods = 0 THEN None
      ELSE [kind |-> "table",
            header1 |-> <<"Team">> \o [i \in 1..columns |-> PeriodHeading(i)]
                          \o <<"Total">>,
            header2 |-> [i \in 1..(columns + 2) |->
                           IF i = 1 THEN ":---" ELSE ":--:"],
            home_team_line |->
              <<home_team.fullName>>
                \o [i \in 1..columns |-> points(home_score, current_period, i)]
                \o <<home_team.score>>,
            road_team_line |->
              <<road_team.fullName>>
                \o [i \in 1..columns |-> points(road_score, current_period, i)]
                \o <<road_team.score>>]

\* the model's clock starts at 5 pm Eastern time
EPOCH_EASTERN == 17 * HOUR
DAY == 24 * HOUR

\* line 218: now.astimezone(EASTERN_TIMEZONE).strftime("%B %d, %Y"), the
\* day of now in Eastern time, days being counted from the model's first
EasternDate(now) == (now + EPOCH_EASTERN) \div DAY

\* lines 136-143, 155-158 and 216-218: the title of the game thread
build_game_thread_title(bs, now) ==
  LET hteam == bs.basicGameData.hTeam
      vteam == bs.basicGameData.vTeam
      home == hteam.triCode = "NYK"
      us == IF home THEN hteam ELSE vteam
      them == IF home THEN vteam ELSE hteam
  IN  [kind |-> "title",
       prefix |-> GAME_THREAD_PREFIX,
       knicks_record |-> <<us.win, us.loss>>,
       home_away_sign |-> IF home THEN "vs" ELSE "@",
       other_team_name |-> them.fullName,
       other_record |-> <<them.win, them.loss>>,
       date |-> EasternDate(now)]

\* lines 216-218 and 268-269: the title as the forum holds it, the words of
\* the f-string in their order, the phase prefix first
Tokens(title) ==
  IF title.prefix = GAME_THREAD_PREFIX
    THEN << title.prefix, "The New York Knicks", title.knicks_record,
            title.home_away_sign, "The", title.other_team_name,
            title.other_record, "-", title.date >>
    ELSE << title.prefix, "The", title.winners, title.defeat, "the",
            title.losers, title.maybe_overtime, title.score >>

\* the four quarters of a game that ended in regulation
Regulation == [period \in 1..4 |-> [score |-> "25"]]

\* lines 85-88, nba_service.boxscore(...) for a game of the feed: the
\* Knicks at home to Boston, with the scores the provider has for the game;
\* each team carries the names the teams table has for its teamId, and the
\* game is in its fourth quarter
Boxscore(game) ==
  [basicGameData |->
     [gameId |-> game.gameId,
      period |-> [current |-> <<"4">>],
      hTeam |-> [triCode |-> "NYK", fullName |-> "New York Knicks",
                 urlName |-> "knicks", win |-> "3", loss |-> "1",
                 score |-> game.hTeam.score, linescore |-> Regulation],
      vTeam |-> [triCode |-> "BOS", fullName |-> "Boston Celtics",
                 urlName |-> "celtics", win |-> "2", loss |-> "2",
                 score |-> game.vTeam.score, linescore |-> Regulation]]]

\* a row of the line score as the body holds it: the team's name, the
\* points of each period and, last, the characters of the team's score
RowText(line) == SubSeq(line, 1, Len(line) - 1) \o line[Len(line)]

RenderedBody(text) == [kind |-> "body", text |-> text]

\* lines 207-210 of _build_game_thread_text and lines 349-350 of
\* _build_boxscore_text: the body built from a version of the boxscore, its
\* text with the line score of the game put in, the visitors' row first;
\* the game thread leaves the section out when there is no line score, the
\* post-game thread prints None; or what _build_linescore raises
Render(act, version, bs) ==
  LET linescore == build_linescore(bs.basicGameData)
      text == Bodies[version]
      rows == IF linescore.kind = "None" THEN <<"None">>
              ELSE RowText(linescore.road_team_line)
                     \o RowText(linescore.home_team_line)
      score == IF act # DO_GAME_THREAD THEN <<"##### Line Score">> \o rows
               ELSE IF linescore.kind = "None" THEN <<>>
               ELSE <<"##### Score">> \o rows
  IN  IF linescore.kind \in {"ValueError", "AssertionError"} THEN linescore
      ELSE RenderedBody(<<Head(text)>> \o score \o Tail(text))

\* lines 80-82: the titles the renderer can give for the action, or the
\* ValueError of the post-game title
Titles(act, bs, now) ==
  IF act = DO_GAME_THREAD THEN {build_game_thread_title(bs, now)}
                          ELSE build_postgame_title(bs)

----------------------------------------------------------------------------
(* The environment *)

\* the clock advances by 6 hours, then a second, then an hour, and again
TickStep(k) ==
  IF k % 3 = 1 THEN MAX_POST_AGE_HOURS * HOUR ELSE IF k % 3 = 2 THEN 1 ELSE HOUR

Tick ==
  /\ ticks < MaxTicks
  /\ clock' = clock + TickStep(ticks + 1)
  /\ ticks' = ticks + 1
  /\ UNCHANGED <<feed, boxscore, forum, runs, cin, cout>>

\* number of days the clock goes on by once it has advanced MaxTicks times
MaxDays == 1

\* a day goes by
NextDay ==
  /\ ticks >= MaxTicks /\ ticks < MaxTicks + MaxDays
  /\ clock' = clock + DAY
  /\ ticks' = ticks + 1
  /\ UNCHANGED <<feed, boxscore, forum, runs, cin, cout>>

\* the upstream provider fills in the score of tonight's game, once the
\* game has tipped off
ScoreUpdate ==
  /\ ~has_score_pre(feed.standard[2])
  /\ clock >= feed.standard[2].startTimeUTC
  /\ feed' = [feed EXCEPT !.standard[2] = Game(2, HOUR, Scored)]
  /\ UNCHANGED <<clock, ticks, boxscore, forum, runs, cin, cout>>

\* the upstream provider then moves its cursor on to tonight's game, the
\* last of the schedule
CursorAdvance ==
  /\ has_score_pre(feed.standard[2])
  /\ feed.lastStandardGamePlayedIndex < Len(feed.standard) - 1
  /\ feed' = [feed EXCEPT !.lastStandardGamePlayedIndex = @ + 1]
  /\ UNCHANGED <<clock, ticks, boxscore, forum, runs, cin, cout>>

\* the upstream provider publishes the next version of the boxscore, until
\* the game has its final score
BoxscoreUpdate ==
  /\ boxscore < Len(Bodies)
  /\ ~has_score_pre(feed.standard[2])
  /\ boxscore' = boxscore + 1
  /\ UNCHANGED <<clock, ticks, feed, forum, runs, cin, cout>>

----------------------------------------------------------------------------
(* One invocation of the bot: __main__, run, _create_or_update_game_thread *)

Active(r) == runs[r].pc \notin {"idle", "exit"}

\* the long options of the parser of lines 656-662, --help being the one
\* every OptionParser has; their short forms are -u and -h
USER_OPTION == <<"-", "-", "u", "s", "e", "r">>
HELP_OPTION == <<"-", "-", "h", "e", "l", "p">>
LONG_OPTIONS == {USER_OPTION, HELP_OPTION}

\* parse_args() when it returns, and when it ends the process itself
Parsed(args, username) ==
  [kind |-> "parsed", args |-> args, username |-> username]
ParserExit(status) == [kind |-> "exit", status |-> status]

\* str.startswith(q), on character sequences
StartsWith(s, q) == Len(q) <= Len(s) /\ SubSeq(s, 1, Len(q)) = q

\* the place of the first c in s, 0 when there is none
Find(s, c) ==
  IF \E i \in 1..Len(s) : s[i] = c
    THEN CHOOSE i \in 1..Len(s) :
           s[i] = c /\ \A j \in 1..(i - 1) : s[j] # c
    ELSE 0

\* line 663, parser.parse_args() on what is left of the command line, with
\* the positional arguments and the user name found so far (<<>> for None).
\* The arguments are read from left to right.  After -- everything is
\* positional; an argument that begins with -- is a long option, one that
\* begins with - and has more to it a cluster of short options, any other
\* a positional argument.  Help ends the process with status 0; an option
\* the parser does not know, an abbreviation that fits both long options,
\* a user option with nothing to take as its value and a value given to
\* --help end it with the usage text and status 2.
RECURSIVE parse(_, _, _)
RECURSIVE process_long_opt(_, _, _, _)
RECURSIVE process_short_opts(_, _, _, _, _)

\* the user option takes the next of rargs, whatever it is
take_value(rargs, largs) ==
  IF rargs = <<>> THEN ParserExit(2)
  ELSE parse(Tail(rargs), largs, <<Head(rargs)>>)

\* --opt and --opt=value, opt being a long option or the beginning of one
process_long_opt(arg, rargs, largs, username) ==
  LET eq == Find(arg, "=")
      opt == IF eq = 0 THEN arg ELSE SubSeq(arg, 1, eq - 1)
      rest == IF eq = 0 THEN rargs
              ELSE <<SubSeq(arg, eq + 1, Len(arg))>> \o rargs
      possibilities ==
        IF opt \in LONG_OPTIONS THEN {opt}
        ELSE { word \in LONG_OPTIONS : StartsWith(word, opt) }
  IN  IF Cardinality(possibilities) # 1 THEN ParserExit(2)
      ELSE IF possibilities = {USER_OPTION} THEN take_value(rest, largs)
      ELSE IF eq # 0 THEN ParserExit(2)
      ELSE ParserExit(0)

\* the short options of arg from its i-th character on: what follows -u in
\* the same argument is its value
process_short_opts(arg, i, rargs, largs, username) ==
  IF i > Len(arg) THEN parse(rargs, largs, username)
  ELSE IF arg[i] = "h" THEN ParserExit(0)
  ELSE IF arg[i] = "u"
    THEN take_value(IF i < Len(arg)
                      THEN <<SubSeq(arg, i + 1, Len(arg))>> \o rargs
                      ELSE rargs,
                    largs)
  ELSE ParserExit(2)

parse(rargs, largs, username) ==
  IF rargs = <<>> THEN Parsed(largs, username)
  ELSE
    LET arg == Head(rargs)
    IN  IF arg = <<"-", "-">> THEN Parsed(largs \o Tail(rargs), username)
        ELSE IF StartsWith(arg, <<"-", "-">>)
          THEN process_long_opt(arg, Tail(rargs), largs, username)
        ELSE IF StartsWith(arg, <<"-">>) /\ Len(arg) > 1
          THEN process_short_opts(arg, 2, Tail(rargs), largs, username)
        ELSE parse(Tail(rargs), Append(largs, arg), username)

parse_args(argv) == parse(argv, <<>>, <<>>)

\* the characters of the default account's name
BOT_NAME == <<"n", "y", "k", "n", "i", "c", "k", "s", "-", "a", "u", "t", "o", "m", "o", "d">>

\* line 673
Username(options) ==
  IF options.username # <<>> /\ options.username[1] # <<>>
    THEN options.username[1] ELSE BOT_NAME

\* the subreddit, as the bot is given it
SUBREDDIT == <<"N", "Y", "K", "n", "i", "c", "k", "s">>

\* the command lines (sys.argv[1:]) the scheduler may start the process
\* with, each argument a sequence of characters; the account, when one is
\* named, is the bot's
ArgLists ==
  { <<>>, <<SUBREDDIT>>, <<SUBREDDIT, <<"n", "b", "a">>>>,
    <<<<"-", "u">>, BOT_NAME, SUBREDDIT>>, <<SUBREDDIT, USER_OPTION, BOT_NAME>>,
    <<<<"-", "u">> \o BOT_NAME, SUBREDDIT>>,
    <<USER_OPTION \o <<"=">> \o BOT_NAME, SUBREDDIT>>,
    <<<<"-", "-", "u", "s">>, BOT_NAME, SUBREDDIT>>,
    <<<<"-", "-">>, SUBREDDIT>>, <<<<"-", "u">>, <<>>, SUBREDDIT>>,
    <<<<"-">>>>, <<<<>>>>,
    <<<<"-", "x">>>>, <<SUBREDDIT, <<"-", "u">>>>, <<SUBREDDIT, USER_OPTION>>,
    <<<<"-", "h">>>>, <<SUBREDDIT, HELP_OPTION>>, <<<<"-", "-", "h", "e">>, SUBREDDIT>>,
    <<HELP_OPTION \o <<"=", "1">>>>, <<<<"-", "-", "=">>>>,
    <<<<"-", "x">>, <<"-", "h">>>>, <<<<"-", "h">>, <<"-", "x">>>>, <<<<"-", "h", "x">>>>, <<<<"-", "x", "h">>>>,
    <<<<"-", "u">>, <<"-", "h">>>> }

\* line 663, outside the try: the parser ends the process, with the usage
\* text and status 2 or with the help and status 0, nothing logged
OptionExit(run, status) ==
  [Ended(run) EXCEPT !.result = IF status = 0 THEN "help" ELSE "options",
                     !.exit = status]

\* lines 668-670, outside the try: one error record, then SystemExit with
\* the usage text, which ends the process with status 1
UsageError(run) ==
  [Ended(run) EXCEPT !.result = "usage", !.logged = @ + 1, !.exit = 1]

\* line 665, outside the try: logging.conf cannot be read, fileConfig
\* raises, and the process ends with a traceback and status 1, nothing
\* logged
ConfigError(run) ==
  [Ended(run) EXCEPT !.result = "config", !.exit = 1]

\* lines 663-677 on a command line, with logging.conf readable or not, at
\* the time now: the command line is parsed, logging is set up, the
\* arguments are counted and the clock is read
Start(run, argv, logging_conf, now) ==
  LET parsed == parse_args(argv)
  IN  IF parsed.kind = "exit" THEN OptionExit(run, parsed.status)
      ELSE IF ~logging_conf THEN ConfigError(run)
      ELSE IF Len(parsed.args) # 1 THEN UsageError(run)
      ELSE [run EXCEPT !.pc = "fetch", !.now = now]

\* the process starts
Begin(r) ==
  /\ runs[r].pc = "idle"
  /\ \A o \in Runs : o < r => runs[o].pc # "idle"
  /\ \E started \in { Start(runs[r], argv, logging_conf, clock) :
                        argv \in ArgLists, logging_conf \in BOOLEAN } :
       runs' = [runs EXCEPT ![r] = started]
  /\ UNCHANGED <<clock, ticks, feed, boxscore, forum, cin, cout>>

\* the scheduler gives no mutual exclusion: it starts an invocation while
\* the one before it is still running (two invocations overlap at most)
Launch(r) == (\A o \in Runs : o + 1 < r => ~Active(o)) /\ Begin(r)

\* the scheduler starts a process only when none is running
LaunchAlone(r) == (\A o \in Runs : ~Active(o)) /\ Begin(r)

\* a handler that logs and then exits with a failure status
CaughtThenFails(run) ==
  [Ended(run) EXCEPT !.result = "error", !.logged = @ + 1, !.exit = 1]

\* lines 684-685: the bare except logs the trace; the process then ends
Caught(run) ==
  [Ended(run) EXCEPT !.result = "error", !.logged = @ + 1]

\* line 76 or the end of run(): the process ends
Finished(run, result) ==
  [Ended(run) EXCEPT !.result = result]

\* lines 70-76: fetch the schedule and classify
Prepare(r) ==
  /\ runs[r].pc = "fetch"
  /\ LET got == get_current_game(feed, 0, runs[r].now)
     IN  \/ /\ got.kind = "IndexError"
            /\ runs' = [runs EXCEPT ![r] = Caught(@)]
         \/ /\ got.kind = "return" /\ got.action = DO_NOTHING
            /\ runs' = [runs EXCEPT ![r] = Finished(@, "nothing")]
         \/ /\ got.kind = "return" /\ got.action # DO_NOTHING
            /\ runs' = [runs EXCEPT ![r].pc = "boxscore",
                                    ![r].action = got.action,
                                    ![r].game = got.game.gameId]
  /\ UNCHANGED <<clock, ticks, feed, boxscore, forum, cin, cout>>

\* lines 78-82: fetch the boxscore of that game, as the provider has it by
\* now, and render title and body from it
FetchBoxscore(r) ==
  /\ runs[r].pc = "boxscore"
  /\ LET bs == Boxscore(feed.standard[runs[r].game])
         body == Render(runs[r].action, boxscore, bs)
     IN  \E title \in Titles(runs[r].action, bs, runs[r].now) :
           runs' = [runs EXCEPT ![r] =
                      IF title.kind = "ValueError" \/ body.kind # "body"
                        THEN Caught(@)
                        ELSE [@ EXCEPT !.pc = "scan", !.title = Tokens(title),
                                       !.body = body.text]]
  /\ UNCHANGED <<clock, ticks, feed, boxscore, forum, cin, cout>>

\* lines 621-636: list the newest posts and look for the thread
Scan(r) ==
  /\ runs[r].pc = "scan"
  /\ LET k == FindThread(forum, runs[r].action, BOT, runs[r].now)
     IN  runs' = [runs EXCEPT ![r].pc = "act", ![r].thread = k,
                              ![r].seen = Len(forum),
                              ![r].selftext =
                                 IF k = 0 THEN <<>> ELSE forum[k].selftext]
  /\ UNCHANGED <<clock, ticks, feed, boxscore, forum, cin, cout>>

\* lines 638-639: no thread found, submit one
Submit(r) ==
  /\ runs[r].pc = "act"
  /\ runs[r].thread = 0
  /\ forum' = Append(forum,
                 Post(runs[r].title, runs[r].body, BOT, clock, r,
                      runs[r].seen))
  /\ runs' = [runs EXCEPT ![r].pc = "sticky", ![r].thread = Len(forum) + 1,
                          ![r].writes = @ + 1]
  /\ UNCHANGED <<clock, ticks, feed, boxscore, cin, cout>>

\* the pinned posts a subreddit can hold
STICKY_SLOTS == 2

Stickied(f) == { k \in 1..Len(f) : f[k].stickied }

\* line 640, thread.mod.sticky() with its defaults (state=True,
\* bottom=True): the post is pinned in the bottom slot, or in the top slot
\* when nothing is pinned; with every slot taken, the post that held the
\* bottom slot is pinned no longer
sticky(f, k) ==
  IF f[k].stickied THEN f
  ELSE IF Cardinality(Stickied(f)) < STICKY_SLOTS
    THEN [f EXCEPT ![k].stickied = TRUE,
                   ![k].slot = Cardinality(Stickied(f)) + 1]
  ELSE [i \in 1..Len(f) |->
          IF i = k THEN [f[i] EXCEPT !.stickied = TRUE, !.slot = STICKY_SLOTS]
          ELSE IF f[i].slot = STICKY_SLOTS
            THEN [f[i] EXCEPT !.stickied = FALSE, !.slot = 0]
          ELSE f[i]]

\* lines 640-641: pin the new thread
Sticky(r) ==
  /\ runs[r].pc = "sticky"
  /\ forum' = sticky(forum, runs[r].thread)
  /\ runs' = [runs EXCEPT ![r] =
                Finished([@ EXCEPT !.writes = @ + 1], "created")]
  /\ UNCHANGED <<clock, ticks, feed, boxscore, cin, cout>>

\* the comparison of line 642 inverted
SameTextInverted(selftext, body) == strip(selftext) # strip(body)

\* a comparison of the lengths of the two texts
SameTextLength(selftext, body) == Len(strip(selftext)) = Len(strip(body))

\* line 642: the text the listing showed against the rendered text
SameText(selftext, body) == strip(selftext) = strip(body)

\* lines 642-643
LeaveUnchanged(r) ==
  /\ runs[r].pc = "act"
  /\ runs[r].thread # 0
  /\ SameText(runs[r].selftext, runs[r].body)
  /\ runs' = [runs EXCEPT ![r] = Finished(@, "unchanged")]
  /\ UNCHANGED <<clock, ticks, feed, boxscore, forum, cin, cout>>

\* an edit that writes the trimmed body
EditStripped(r) ==
  /\ runs[r].pc = "act"
  /\ runs[r].thread # 0
  /\ ~SameText(runs[r].selftext, runs[r].body)
  /\ forum' = [forum EXCEPT ![runs[r].thread].selftext = strip(runs[r].body),
                            ![runs[r].thread].editedBy = @ \cup {r}]
  /\ runs' = [runs EXCEPT ![r] =
                Finished([@ EXCEPT !.writes = @ + 1], "updated")]
  /\ UNCHANGED <<clock, ticks, feed, boxscore, cin, cout>>

\* lines 644-646
Edit(r) ==
  /\ runs[r].pc = "act"
  /\ runs[r].thread # 0
  /\ ~SameText(runs[r].selftext, runs[r].body)
  /\ forum' = [forum EXCEPT ![runs[r].thread].selftext = runs[r].body,
                            ![runs[r].thread].editedBy = @ \cup {r}]
  /\ runs' = [runs EXCEPT ![r] =
                Finished([@ EXCEPT !.writes = @ + 1], "updated")]
  /\ UNCHANGED <<clock, ticks, feed, boxscore, cin, cout>>

\* a call to the statistics provider or to the forum raises
Raise(r) ==
  /\ Active(r)
  /\ runs' = [runs EXCEPT ![r] = Caught(@)]
  /\ UNCHANGED <<clock, ticks, feed, boxscore, forum, cin, cout>>

----------------------------------------------------------------------------
(* The classifier on its own *)

Classify ==
  /\ cin.kind = "input"
  /\ cout.kind = "pending"
  /\ cout' = get_current_game(cin.schedule, cin.num_games_postponed, clock)
  /\ UNCHANGED <<clock, ticks, feed, boxscore, forum, runs, cin>>

----------------------------------------------------------------------------
(* Specifications *)

World ==
  /\ clock = 0
  /\ ticks = 0
  /\ feed = FeedInit
  /\ boxscore = 1
  /\ forum = <<FanPost>>
  /\ runs = [r \in Runs |-> RunInit]

Init == World /\ cin = NoInput /\ cout = Pending

Environment ==
  \/ Tick
  \/ ScoreUpdate
  \/ CursorAdvance
  \/ BoxscoreUpdate

Pipeline(r) ==
  \/ Prepare(r)
  \/ FetchBoxscore(r)
  \/ Scan(r)
  \/ Submit(r)
  \/ Sticky(r)
  \/ LeaveUnchanged(r)
  \/ Edit(r)
  \/ Raise(r)

\* invocations may overlap
Next == Environment \/ \E r \in Runs : Launch(r) \/ Pipeline(r)

Spec == Init /\ [][Next]_vars

\* invocations one after the other, followed into the next days
SeqNext ==
  Environment \/ NextDay \/ \E r \in Runs : LaunchAlone(r) \/ Pipeline(r)

SeqSpec == Init /\ [][SeqNext]_vars

ClassifyInit == World /\ cin \in ClassifierInputs /\ cout = Pending

ClassifyNext == Classify

ClassifySpec == ClassifyInit /\ [][ClassifyNext]_vars

----------------------------------------------------------------------------
(* What the claims speak of *)

PhasePrefixes == {GAME_THREAD_PREFIX, POST_GAME_PREFIX}
MaxPostAge == MAX_POST_AGE_HOURS * HOUR

\* a live thread of a phase: the phase's prefix, the bot as author, created
\* at most 6 hours before now
Live(post, q, now) ==
  /\ post.author = BOT
  /\ startswith(post.title, q)
  /\ post.created_utc + MaxPostAge >= now

LiveThreads(f, q, now) == { k \in 1..Len(f) : Live(f[k], q, now) }

\* the posts a run can take for the thread of phase q, whatever their age
Candidates(f, q) ==
  { k \in 1..Len(f) : f[k].author = BOT /\ startswith(f[k].title, q) }

\* run r, having read the clock and got into its pipeline, ends; and run r
\* takes a step of its pipeline, and the step raises nothing
Ends(r) == Active(r) /\ runs'[r].pc = "exit"
StepsFrom(r, pc) ==
  runs[r].pc = pc /\ runs'[r].pc # pc /\ runs'[r].result # "error"

\* every post of f is in g as it was
Kept(f, g) == Len(g) >= Len(f) /\ \A k \in 1..Len(f) : g[k] = f[k]
KeptBut(f, g, j) ==
  Len(g) >= Len(f) /\ \A k \in 1..Len(f) : k # j => g[k] = f[k]

\* the title of the game thread of a game of the feed, as rendered at an
\* instant
GameThreadTitle(game, now) ==
  Tokens(build_game_thread_title(Boxscore(game), now))

\* post k of g is post k of f but for its body / its pin
OnlyBodyChanged(f, g, k) == g[k] = [f[k] EXCEPT !.selftext = g[k].selftext,
                                               !.editedBy = g[k].editedBy]
OnlyPinChanged(f, g, k) ==
  g[k] = [f[k] EXCEPT !.stickied = g[k].stickied, !.slot = g[k].slot]

\* the post that loses its pin when another post is pinned: the one in the
\* bottom slot, when every slot is taken
Displaced(f) ==
  { k \in Stickied(f) :
      Cardinality(Stickied(f)) = STICKY_SLOTS /\ f[k].slot = STICKY_SLOTS }

\* every post of f but the j-th is in g as it was, the displaced one
\* without its pin
KeptButPins(f, g, j) ==
  /\ Len(g) >= Len(f)
  /\ \A k \in 1..Len(f) : k # j =>
       g[k] = IF k \in Displaced(f)
                THEN [f[k] EXCEPT !.stickied = FALSE, !.slot = 0]
                ELSE f[k]

\* C1: with invocations one after the other, when an invocation ends the
\* forum holds at most one live thread of each phase, live as of that
\* invocation's now.
C1_AtMostOneLiveThread ==
  [][\A r \in Runs : Ends(r) =>
       \A q \in PhasePrefixes :
         Cardinality(LiveThreads(forum', q, runs[r].now)) <= 1]_vars

\* two invocations have each submitted a thread of the same phase, the
\* second one more than 6 hours after the first, and no invocation runs
C1_Witness ==
  /\ \A r \in Runs : ~Active(r)
  /\ \E i, j \in 1..Len(forum) :
       /\ i < j
       /\ forum[i].author = BOT /\ forum[j].author = BOT
       /\ forum[i].title[1] = forum[j].title[1]
       /\ forum[i].created_utc + MaxPostAge < forum[j].created_utc
       /\ runs[forum[j].by].result = "created"

\* the post run r submitted, still as submitted, is what run r + 1 renders
SameAsFirst(r, k) ==
  /\ forum[k].by = r
  /\ forum[k].editedBy = {}
  /\ forum[k].title = runs[r + 1].title
  /\ forum[k].selftext = runs[r + 1].body

\* C2 as stated: of two invocations in succession with the same action,
\* title and body, the first reporting created, the second reports
\* unchanged and neither submits nor edits, whenever it is run.
C2_AsStated ==
  [][\A r \in Runs : \A k \in 1..Len(forum) :
       ( /\ r + 1 \in Runs
         /\ runs[r].result = "created"
         /\ SameAsFirst(r, k)
         /\ StepsFrom(r + 1, "act") )
       => runs'[r + 1].result = "unchanged" /\ forum' = forum]_vars

\* C2 amended: the same, for a second invocation whose now is at most 6
\* hours after the creation of the first one's post.
C2_Idempotent ==
  [][\A r \in Runs : \A k \in 1..Len(forum) :
       ( /\ r + 1 \in Runs
         /\ runs[r].result = "created"
         /\ SameAsFirst(r, k)
         /\ forum[k].created_utc + MaxPostAge >= runs[r + 1].now
         /\ StepsFrom(r + 1, "act") )
       => runs'[r + 1].result = "unchanged" /\ forum' = forum]_vars

\* the first invocation created a game thread, and the second, rendering
\* from the same boxscore 6 hours later to the second, on the same date and
\* so with the same title, left it unchanged
C2_Witness ==
  \E r \in Runs : \E k \in 1..Len(forum) :
    /\ r + 1 \in Runs
    /\ runs[r].result = "created"
    /\ runs[r + 1].result = "unchanged"
    /\ forum[k].by = r /\ forum[k].editedBy = {}
    /\ boxscore = 1
    /\ forum[k].selftext =
         Render(DO_GAME_THREAD, 1, Boxscore(feed.standard[2])).text
    /\ clock = forum[k].created_utc + MaxPostAge
    /\ forum[k].title = GameThreadTitle(feed.standard[2], clock)

\* C3: an invocation submits a thread while a live thread of its phase
\* exists only if that thread was submitted after the invocation listed the
\* forum: the scan and the submit are two steps, and nothing between them
\* holds the other invocation off.
C3_DuplicateOnlyByRace ==
  [][\A r \in Runs : StepsFrom(r, "act") /\ Len(forum') > Len(forum) =>
       \A i \in LiveThreads(forum, runs[r].title[1], runs[r].now) :
         runs[r].seen < i]_vars

\* two invocations both listed the forum before either submitted, and both
\* submitted: two threads of one phase, both live
C3_Witness ==
  \E i, j \in 1..Len(forum) :
    /\ i < j
    /\ forum[i].by # forum[j].by
    /\ forum[i].seen < i /\ forum[j].seen < i
    /\ \E q \in PhasePrefixes :
         {i, j} \subseteq LiveThreads(forum, q, clock)

\* post k of g is post k of f, pinned in the slot after those taken, the
\* bottom one when all are
PinnedLast(f, g, k) ==
  g[k] = [f[k] EXCEPT !.stickied = TRUE,
                      !.slot = Min2(Cardinality(Stickied(f)) + 1, STICKY_SLOTS)]

\* C4: the scan takes the newest post with the prefix and the bot as author
\* whose creation time plus 6 hours is not before now, and none when there
\* is no such post; finding none, the invocation leaves every post as it is,
\* submits a new post with the rendered title and body, pins it and reports
\* created; the pinning leaves every other post unedited, taking its pin off
\* the post in the bottom slot when every slot is taken.
C4_StalenessExclusion ==
  [][\A r \in Runs :
       LET fresh == { k \in Candidates(forum, runs[r].title[1]) :
                        ~(forum[k].created_utc + MaxPostAge < runs[r].now) }
           new == Len(forum) + 1
       IN  /\ StepsFrom(r, "scan") =>
                runs'[r].thread = IF fresh = {} THEN 0 ELSE Max(fresh)
           /\ StepsFrom(r, "act") /\ runs[r].thread = 0 =>
                /\ Len(forum') = new /\ Kept(forum, forum')
                /\ forum'[new].title = runs[r].title
                /\ forum'[new].selftext = runs[r].body
                /\ forum'[new].author = BOT
                /\ runs'[r].pc = "sticky" /\ runs'[r].thread = new
           /\ StepsFrom(r, "sticky") =>
                /\ Len(forum') = Len(forum)
                /\ KeptButPins(forum, forum', runs[r].thread)
                /\ PinnedLast(forum, forum', runs[r].thread)
                /\ runs'[r].result = "created"]_vars

\* an invocation listed a thread of its phase older than 6 hours, left it
\* unedited, and submitted and pinned a new one
C4_Witness ==
  \E i, j \in 1..Len(forum) :
    /\ i < j
    /\ forum[i].author = BOT /\ forum[j].author = BOT
    /\ forum[i].title[1] = forum[j].title[1]
    /\ forum[j].seen >= i
    /\ forum[i].created_utc + MaxPostAge < forum[j].created_utc
    /\ forum[i].editedBy = {}
    /\ forum[j].stickied
    /\ runs[forum[j].by].result = "created"

\* run r, having found thread k, goes on without raising
ActsOn(r, k) == runs[r].thread = k /\ StepsFrom(r, "act")

Updated(r, k) ==
  /\ runs'[r].result = "updated"
  /\ Len(forum') = Len(forum)
  /\ forum'[k].selftext = runs[r].body
  /\ forum'[k].title = forum[k].title

\* C5 as stated: an invocation that found a post whose body (as the listing
\* showed it) differs from the rendered body reports updated, the post's
\* body is the rendered body afterwards, its title is as before and no post
\* is submitted.
C5_AsStated ==
  [][\A r \in Runs : \A k \in 1..Len(forum) :
       ActsOn(r, k) /\ runs[r].selftext # runs[r].body
         => Updated(r, k)]_vars

\* C5 amended: the same, for a body that differs from the rendered body
\* after leading and trailing whitespace is trimmed from both.
C5_UpdateCorrect ==
  [][\A r \in Runs : \A k \in 1..Len(forum) :
       ActsOn(r, k) /\ strip(runs[r].selftext) # strip(runs[r].body)
         => Updated(r, k)]_vars

\* an invocation has edited a thread an earlier one submitted
C5_Witness ==
  \E r \in Runs : \E k \in 1..Len(forum) :
    /\ runs[r].result = "updated"
    /\ r \in forum[k].editedBy
    /\ forum[k].by # r

\* C10: an invocation in which a step of the pipeline raised has ended, with
\* one entry in the log and exit status 0; it takes no further step, so
\* retries nothing and writes nothing more to the forum; an invocation that
\* got into the pipeline and in which nothing raised logs no error, and
\* every write to the forum is a step of an invocation that has not failed.
C10_ErrorsCaughtOnce ==
  /\ [](\A r \in Runs :
          /\ runs[r].result = "error" =>
               runs[r].pc = "exit" /\ runs[r].logged = 1 /\ runs[r].exit = 0
          /\ runs[r].result \notin {"error", "usage"} => runs[r].logged = 0)
  /\ [][\A r \in Runs : runs[r].result = "error" => runs'[r] = runs[r]]_vars
  /\ [][forum' # forum =>
          \E r \in Runs : /\ runs[r].result # "error"
                          /\ runs'[r].result # "error"
                          /\ runs'[r].writes = runs[r].writes + 1]_vars

\* the pin raised after the submit went through: the post is there, the
\* invocation has ended with the error logged
C10_Witness ==
  \E r \in Runs : \E k \in 1..Len(forum) :
    /\ runs[r].result = "error" /\ runs[r].writes = 1
    /\ forum[k].by = r /\ ~forum[k].stickied

----------------------------------------------------------------------------
(* The classifier's claims, on the inputs of ClassifySpec; now is clock *)

Classified == cin.kind = "input" /\ cout.kind # "pending"
Adjusted ==
  cin.schedule.lastStandardGamePlayedIndex + cin.num_games_postponed
Games == cin.schedule.standard
InBounds(i) == 0 <= i /\ i < Len(Games)
GameAt(i) == Games[i + 1]
NextGame == GameAt(Adjusted + 1)

\* no score on either side
IsUnscored(game) == game.vTeam.score = EMPTY /\ game.hTeam.score = EMPTY

\* the classifier returned this action, with this game
Gave(action, game) ==
  cout.kind = "return" /\ cout.action = action /\ cout.game = game
GaveNothing == cout.kind = "return" /\ cout.action = DO_NOTHING

\* the game at the cursor + 1 exists, is unscored and starts within the hour
PreHolds ==
  /\ InBounds(Adjusted + 1)
  /\ IsUnscored(NextGame)
  /\ NextGame.startTimeUTC - HOUR <= clock

\* the game is scored and started at most 6 hours ago
PostHolds(game) ==
  ~IsUnscored(game) /\ game.startTimeUTC + MaxPostAge >= clock

\* the game the code reads at the cursor when the game at cursor + 1
\* exists: for a cursor of -1, the last game of the schedule
CursorGame ==
  IF Adjusted = -1 THEN Games[Len(Games)] ELSE GameAt(Adjusted)

\* C6 as stated: an unscored game at cursor + 1 gives (GameThread, that
\* game) when it starts at most an hour after now, and (None, _) when it
\* starts later.
C6_AsStated ==
  Classified /\ InBounds(Adjusted + 1) /\ IsUnscored(NextGame) =>
    IF NextGame.startTimeUTC - HOUR <= clock
      THEN Gave(DO_GAME_THREAD, NextGame)
      ELSE GaveNothing

\* C6 amended: an unscored game at cursor + 1 gives (GameThread, that game)
\* when it starts at most an hour after now; when it starts later the
\* result is (PostGameThread, the game at the cursor) if that game is scored
\* and started at most 6 hours before now, and (None, _) if not.
C6_PreGame ==
  Classified /\ InBounds(Adjusted + 1) /\ IsUnscored(NextGame) =>
    IF NextGame.startTimeUTC - HOUR <= clock
      THEN Gave(DO_GAME_THREAD, NextGame)
      ELSE IF PostHolds(CursorGame)
        THEN Gave(DO_POST_GAME_THREAD, CursorGame)
        ELSE GaveNothing

\* an unscored game starting exactly an hour from now got its game thread,
\* and one starting a second later did not, the game at the cursor being
\* within its 6 hours
C6_Witness ==
  /\ Classified /\ InBounds(Adjusted + 1) /\ IsUnscored(NextGame)
  /\ \/ /\ NextGame.startTimeUTC = clock + HOUR
        /\ Gave(DO_GAME_THREAD, NextGame)
     \/ /\ NextGame.startTimeUTC = clock + HOUR + 1
        /\ InBounds(Adjusted)
        /\ Gave(DO_POST_GAME_THREAD, GameAt(Adjusted))

\* C7 as stated: a scored game at the cursor gives (PostGameThread, that
\* game) from its start to 6 hours after it, and (None, _) from 6 hours and
\* a second after it.
C7_AsStated ==
  Classified /\ InBounds(Adjusted) /\ ~IsUnscored(GameAt(Adjusted)) =>
    LET start == GameAt(Adjusted).startTimeUTC
    IN  /\ start <= clock /\ clock <= start + MaxPostAge =>
             Gave(DO_POST_GAME_THREAD, GameAt(Adjusted))
        /\ clock >= start + MaxPostAge + 1 => GaveNothing

\* C7 amended: the same, when the pre-game rule does not hold for the game
\* at cursor + 1 (there is none, or it is scored, or it starts more than an
\* hour after now).
C7_PostGame ==
  Classified /\ InBounds(Adjusted) /\ ~IsUnscored(GameAt(Adjusted))
    /\ ~PreHolds =>
    LET start == GameAt(Adjusted).startTimeUTC
    IN  /\ start <= clock /\ clock <= start + MaxPostAge =>
             Gave(DO_POST_GAME_THREAD, GameAt(Adjusted))
        /\ clock >= start + MaxPostAge + 1 => GaveNothing

\* a scored game that started exactly 6 hours ago got its post-game thread
C7_Witness ==
  /\ Classified /\ InBounds(Adjusted) /\ ~PreHolds
  /\ ~IsUnscored(GameAt(Adjusted))
  /\ GameAt(Adjusted).startTimeUTC + MaxPostAge = clock
  /\ Gave(DO_POST_GAME_THREAD, GameAt(Adjusted))

\* C8: when the pre-game rule holds the result is (GameThread, the game at
\* cursor + 1), whatever the game at the cursor; PostGameThread is returned
\* only when the pre-game rule does not hold; what is returned is one of
\* the three actions, and nothing else comes of a classification but the
\* index error.
C8_FirstMatchWins ==
  Classified =>
    /\ PreHolds => Gave(DO_GAME_THREAD, NextGame)
    /\ cout.kind = "return" /\ cout.action = DO_POST_GAME_THREAD => ~PreHolds
    /\ cout.kind = "return" => cout.action \in Action
    /\ cout.kind \in {"return", "IndexError"}

\* both rules hold, and the pre-game rule won
C8_Witness ==
  /\ Classified /\ PreHolds
  /\ InBounds(Adjusted) /\ PostHolds(GameAt(Adjusted))
  /\ Gave(DO_GAME_THREAD, NextGame)

\* C9 as stated: an adjusted cursor outside 0 .. len - 1 fails with the
\* index error.
C9_AsStated ==
  Classified /\ ~InBounds(Adjusted) => cout.kind = "IndexError"

----------------------------------------------------------------------------
(* The two checks of "has a score", on the values a JSON field can hold *)

\* largest integer score tried
MaxScore == 2

\* a JSON value as Python holds it: a str, an int or None
PyStr(s) == [t |-> "str", s |-> s]
PyInt(n) == [t |-> "int", n |-> n]
PyNone == [t |-> "None"]
TypeError == [kind |-> "TypeError"]

\* bool(x)
PyBool(x) ==
  IF x.t = "str" THEN Truthy(x.s) ELSE IF x.t = "int" THEN x.n # 0 ELSE FALSE

\* x + y: concatenation of two str, sum of two int; otherwise it raises,
\* which is told by a value of its own
Raises == [t |-> "TypeError"]
PyAdd(x, y) ==
  IF x.t = "str" /\ y.t = "str" THEN PyStr(x.s \o y.s)
  ELSE IF x.t = "int" /\ y.t = "int" THEN PyInt(x.n + y.n)
  ELSE Raises

Answer(b) == [kind |-> "return", value |-> b]

\* a scored-check that wants a score on both sides
has_score_both(v, h) == Answer(PyBool(v) /\ PyBool(h))

\* line 110: bool(v) or bool(h)
has_score_or(v, h) == Answer(PyBool(v) \/ PyBool(h))

\* line 118: bool(v + h)
has_score_sum(v, h) ==
  LET sum == PyAdd(v, h)
  IN  IF sum = Raises THEN TypeError ELSE Answer(PyBool(sum))

ScoreStrings == { EMPTY, <<"0">>, <<"1", "0", "2">>, <<"1", "1", "0">> }

ScoreValues ==
  { PyStr(s) : s \in ScoreStrings } \cup { PyInt(n) : n \in 0..MaxScore }
    \cup { PyNone }

ScoreInputs == { [kind |-> "scores", v |-> v, h |-> h] : v, h \in ScoreValues }

\* both checks applied to one pair of score fields
CheckScores ==
  /\ cin.kind = "scores"
  /\ cout.kind = "pending"
  /\ cout' = [kind |-> "checked", pre |-> has_score_or(cin.v, cin.h),
              post |-> has_score_sum(cin.v, cin.h)]
  /\ UNCHANGED <<clock, ticks, feed, boxscore, forum, runs, cin>>

ScoreInit == World /\ cin \in ScoreInputs /\ cout = Pending

ScoreNext == CheckScores

ScoreSpec == ScoreInit /\ [][ScoreNext]_vars

Checked == cin.kind = "scores" /\ cout.kind = "checked"
SameType == cin.v.t = cin.h.t /\ cin.v.t \in {"str", "int"}

\* C11 as stated: there is a pair of score values, strings as the feed gives
\* them or non-negative integers, on which the two checks answer differently.
C11_AsStated ==
  Checked =>
    \E v, h \in ScoreValues :
      /\ has_score_or(v, h).kind = "return"
      /\ has_score_sum(v, h).kind = "return"
      /\ has_score_or(v, h).value # has_score_sum(v, h).value

\* C11 amended: on two strings, and on two non-negative integers, the two
\* checks give the same answer; on any other pair the pre-game check answers
\* and the post-game check raises TypeError.
C11_ScoredChecks ==
  Checked =>
    /\ cout.pre.kind = "return"
    /\ SameType => cout.post = cout.pre
    /\ ~SameType => cout.post = TypeError

\* one side has a score and the other has none: both checks say scored
C11_Witness ==
  /\ Checked
  /\ cin.v = PyStr(<<"1", "0", "2">>) /\ cin.h = PyStr(EMPTY)
  /\ cout.pre = Answer(TRUE) /\ cout.post = Answer(TRUE)

----------------------------------------------------------------------------
(* The defeat verb of the post-game title *)

\* largest score margin tried
MaxMargin == 41

\* the decimal digits of a score, as the boxscore gives it
Digit(d) == SubSeq(<<"0", "1", "2", "3", "4", "5", "6", "7", "8", "9">>, d + 1, d + 1)

RECURSIVE Decimal(_)
Decimal(n) == IF n < 10 THEN Digit(n) ELSE Decimal(n \div 10) \o Digit(n % 10)

\* finished games: the visitors on MaxMargin points, the home team anywhere
\* from 0 to twice that, the Knicks at home or away; and games the
\* post-game rule takes with one of the two scores still empty
DefeatInputs ==
  { [kind |-> "boxscore", home_team_name |-> t,
     hTeam_score |-> Decimal(MaxMargin + d), vTeam_score |-> Decimal(MaxMargin)] :
      t \in {"knicks", "celtics"}, d \in (-MaxMargin)..MaxMargin }
  \cup
  { [kind |-> "boxscore", home_team_name |-> t,
     hTeam_score |-> sc[1], vTeam_score |-> sc[2]] :
      t \in {"knicks", "celtics"},
      sc \in { <<Decimal(MaxMargin), <<>>>>, <<<<>>, Decimal(MaxMargin)>> } }

\* the title's verb is drawn
BuildDefeatSynonym ==
  /\ cin.kind = "boxscore"
  /\ cout.kind = "pending"
  /\ \E out \in build_defeat_synonym(cin.home_team_name, cin.hTeam_score,
                                      cin.vTeam_score) :
       cout' = out
  /\ UNCHANGED <<clock, ticks, feed, boxscore, forum, runs, cin>>

DefeatInit == World /\ cin \in DefeatInputs /\ cout = Pending

DefeatNext == BuildDefeatSynonym

DefeatSpec == DefeatInit /\ [][DefeatNext]_vars

\* the phrase sets of the bands, from the 17 phrases the list is written
\* with: two for a narrow margin, two for a close win, six for a blowout,
\* five for a rout, three ordinary ones of which a loss takes the first two
NarrowPhrases == {"edge out", "steal one against"}
ClosePhrases == {"steal one against", "hang on to defeat"}
BlowoutPhrases ==
  {"blow out", "level out", "destroy", "crush", "walk all over", "exterminate"}
RoutPhrases ==
  {"slaughter", "massacre", "obliterate", "eviscerate", "annihilate"}
OrdinaryPhrases == {"defeat", "beat", "triumph over"}
LossPhrases == {"defeat", "beat"}

Titled == cin.kind = "boxscore" /\ cout.kind = "verb"
Margin == Abs(int(cin.hTeam_score) - int(cin.vTeam_score))
KnicksWin ==
  IF cin.home_team_name = "knicks"
    THEN int(cin.hTeam_score) > int(cin.vTeam_score)
    ELSE int(cin.vTeam_score) > int(cin.hTeam_score)

\* C12 as stated: the verb is of the phrase set its margin selects: narrow
\* below 3, close win from 3 to 6, blowout from 20 to 40, rout above 40,
\* ordinary otherwise, and for a loss one of the two ordinary phrases.
C12_AsStated ==
  Titled =>
    cout.verb \in
      IF ~KnicksWin THEN LossPhrases
      ELSE IF Margin < 3 THEN NarrowPhrases
      ELSE IF Margin <= 6 THEN ClosePhrases
      ELSE IF Margin > 40 THEN RoutPhrases
      ELSE IF Margin >= 20 THEN BlowoutPhrases
      ELSE OrdinaryPhrases

----------------------------------------------------------------------------
(* The line score table *)

\* longest line score tried: four quarters and overtime periods
MaxPeriods == 5

PeriodScores == {"0", "25"}

LineScores ==
  UNION { [1..n -> { [score |-> x] : x \in PeriodScores }] : n \in 0..MaxPeriods }

\* boxscores: any two line scores, the game in any period from the first to
\* the one after the longest line score, or the period left empty
LinescoreInputs ==
  { [kind |-> "linescore",
     period |-> [current |-> p],
     hTeam |-> [fullName |-> "New York Knicks", score |-> "102", linescore |-> h],
     vTeam |-> [fullName |-> "Boston Celtics", score |-> "110", linescore |-> v]] :
      p \in { Decimal(n) : n \in 1..(MaxPeriods + 1) } \cup { <<>> },
      h \in LineScores, v \in LineScores }

BuildLinescore ==
  /\ cin.kind = "linescore"
  /\ cout.kind = "pending"
  /\ cout' = build_linescore(cin)
  /\ UNCHANGED <<clock, ticks, feed, boxscore, forum, runs, cin>>

LinescoreInit == World /\ cin \in LinescoreInputs /\ cout = Pending

LinescoreNext == BuildLinescore

LinescoreSpec == LinescoreInit /\ [][LinescoreNext]_vars

Tabled == cin.kind = "linescore" /\ cout.kind = "table"
CurrentPeriod == int(cin.period.current)
\* the two rows, each with the line score it renders
Rows ==
  { [line |-> cout.home_team_line, of |-> cin.hTeam.linescore],
    [line |-> cout.road_team_line, of |-> cin.vTeam.linescore] }
\* the period columns of a row: all cells but the team's name and the total
PeriodCells(row) == SubSeq(row.line, 2, Len(row.line) - 1)
Cell(row, k) == row.line[k + 1]

\* C13 as stated: with the current period p at most 4, each row has
\* max(4, len) period columns; every column past p shows "-", every column
\* up to p shows the period's score, and every overtime column of the line
\* score shows its score.
C13_AsStated ==
  Tabled /\ CurrentPeriod <= 4 =>
    \A row \in Rows :
      /\ Len(PeriodCells(row)) = Max({4, Len(row.of)})
      /\ \A k \in 1..Len(PeriodCells(row)) :
           /\ k > CurrentPeriod => Cell(row, k) = "-"
           /\ k <= CurrentPeriod /\ k <= Len(row.of) =>
                Cell(row, k) = row.of[k].score
           /\ k > 4 /\ k <= Len(row.of) => Cell(row, k) = row.of[k].score

\* C13 amended: with the current period p at most 4, each row has
\* max(4, len) period columns; a column past p shows "-" when the line score
\* has no such period or gives "0" for it, and the period's score otherwise,
\* overtime columns included; a column up to p shows the period's score, and
\* "-" when the line score has no such period.
C13_LineScore ==
  Tabled /\ CurrentPeriod <= 4 =>
    \A row \in Rows :
      /\ Len(PeriodCells(row)) = Max({4, Len(row.of)})
      /\ \A k \in 1..Len(PeriodCells(row)) :
           /\ k > Len(row.of) => Cell(row, k) = "-"
           /\ k <= Len(row.of) /\ k > CurrentPeriod =>
                Cell(row, k) = IF row.of[k].score = "0" THEN "-"
                                                         ELSE row.of[k].score
           /\ k <= Len(row.of) /\ k <= CurrentPeriod =>
                Cell(row, k) = row.of[k].score

\* a game in its second period, a quarter without points behind it: "-" for
\* the third and fourth periods, the scores for the first two
C13_Witness ==
  /\ Tabled /\ CurrentPeriod = 2
  /\ cin.hTeam.linescore =
       <<[score |-> "25"], [score |-> "0"], [score |-> "0"], [score |-> "0"]>>
  /\ cout.home_team_line = <<"New York Knicks", "25", "0", "-", "-", "102">>

----------------------------------------------------------------------------
(* The bodies of the two threads, section by section *)

\* longest list of active players tried
MaxPlayers == 2

\* a body is the sequence of its sections, each a heading and what follows
\* it; a table is its header and its rows
Section(heading, content) == [heading |-> heading, content |-> content]
Table(header, rows) == [kind |-> "table", header |-> header, rows |-> rows]
Text(text) == [kind |-> "text", text |-> text]
KeyError == [kind |-> "KeyError"]

\* line 517 and line 539: 'stats' and its 'activePlayers' are there
HasActivePlayers(bs) == bs.stats.kind = "present"

\* zip(a, b)
zip(a, b) == [i \in 1..Min2(Len(a), Len(b)) |-> <<a[i], b[i]>>]

\* lines 516-533
build_starters_table(bs) ==
  IF ~HasActivePlayers(bs) THEN None
  ELSE
    LET vteamid == bs.basicGameData.vTeam.teamId
        starters == SelectSeq(bs.stats.activePlayers,
                              LAMBDA st : Truthy(st.pos))
        cell(st) == [name |-> st.name, pos |-> st.pos]
        away == SelectSeq(starters, LAMBDA st : st.teamId = vteamid)
        home == SelectSeq(starters, LAMBDA st : st.teamId # vteamid)
    IN  Table(<<bs.basicGameData.vTeam.fullName,
                bs.basicGameData.hTeam.fullName>>,
              zip([i \in 1..Len(away) |-> cell(away[i])],
                  [i \in 1..Len(home) |-> cell(home[i])]))

\* line 564: player["pos"].replace("-", "/")
replace_dash(pos) == [i \in 1..Len(pos) |-> IF pos[i] = "-" THEN "/" ELSE pos[i]]

\* lines 549-555: the ids of a roster that are not among the active players
inactive_player_ids(roster, active_players) ==
  { pid \in Elems(roster) :
      \A i \in 1..Len(active_players) : active_players[i].personId # pid }

\* lines 563-565
player_str(player) == [name |-> player.name, pos |-> replace_dash(player.pos)]

\* lines 568-578: the loop over the players from the i-th on, with the two
\* lists as built so far; it stops once they hold total_inactive names
RECURSIVE collect_inactive(_, _, _, _, _, _, _)
collect_inactive(players, i, hids, vids, total_inactive, hinactive, vinactive) ==
  IF i > Len(players) THEN [hinactive |-> hinactive, vinactive |-> vinactive]
  ELSE
    LET player == players[i]
        h == IF player.personId \in hids
               THEN Append(hinactive, player_str(player)) ELSE hinactive
        v == IF player.personId \in vids
               THEN Append(vinactive, player_str(player)) ELSE vinactive
    IN  IF Len(h) + Len(v) = total_inactive
          THEN [hinactive |-> h, vinactive |-> v]
          ELSE collect_inactive(players, i + 1, hids, vids, total_inactive,
                                h, v)

\* lines 534-583; hroster, vroster and players are what nba_service gives
build_inactive_table(bs, hroster, vroster, players) ==
  IF ~HasActivePlayers(bs) THEN None
  ELSE
    LET hids == inactive_player_ids(hroster, bs.stats.activePlayers)
        vids == inactive_player_ids(vroster, bs.stats.activePlayers)
        total_inactive == Cardinality(hids) + Cardinality(vids)
        found == collect_inactive(players, 1, hids, vids, total_inactive,
                                  <<>>, <<>>)
        hinactive == found.hinactive
        vinactive == found.vinactive
        blank == [name |-> "", pos |-> <<>>]
    IN  IF total_inactive = 0 THEN None
        ELSE Table(<<bs.basicGameData.vTeam.fullName,
                     bs.basicGameData.hTeam.fullName>>,
                   [i \in 1..Max({Len(hinactive), Len(vinactive)}) |->
                      << IF i <= Len(vinactive) THEN vinactive[i] ELSE blank,
                         IF i <= Len(hinactive) THEN hinactive[i] ELSE blank >>])

IfAny(x, heading) == IF x = None THEN <<>> ELSE <<Section(heading, x)>>

\* what a method gives when it returns: the body, section by section
Body(sections) == [kind |-> "body", sections |-> sections]

\* whether _build_linescore raised: the assert of line 492, or int() of
\* line 482
Failed(x) == x.kind \in {"AssertionError", "ValueError"}

\* lines 124-210: the body of the game thread; an exception of
\* _build_linescore (line 207) leaves the method, and no body is returned
build_game_thread_text(bs, hroster, vroster, players) ==
  LET officials == bs.basicGameData.officials.formatted
      linescore == build_linescore(bs.basicGameData)
  IN  IF Failed(linescore) THEN linescore
      ELSE Body(
        <<Section("General Information", Text(bs.basicGameData.gameId))>>
          \o IfAny(build_starters_table(bs), "Starting lineups")
          \o IfAny(build_inactive_table(bs, hroster, vroster, players),
                   "Inactive")
          \o (IF Len(officials) > 0
                THEN <<Section("Officials", Table(<<>>, <<officials>>))>>
                ELSE <<>>)
          \o IfAny(linescore, "Score")
          \o <<Section("-----", Text("Reddit Stream"))>>)

\* str(x) of what _build_linescore returns, in an f-string
Formatted(x) == IF x = None THEN Text("None") ELSE x

\* lines 293-474: the body of the post-game thread. The line score is
\* built first (line 350) and its exception leaves the method; then
\* boxscore["stats"]["activePlayers"] is read (lines 353-354), a KeyError
\* when it is missing; the players' rows are the visitors' first, then the
\* home team's (lines 454-473)
build_boxscore_text(bs) ==
  LET linescore == build_linescore(bs.basicGameData)
      vteamid == bs.basicGameData.vTeam.teamId
      playerStats == bs.stats.activePlayers
      away_players == SelectSeq(playerStats, LAMBDA st : st.teamId = vteamid)
      home_players == SelectSeq(playerStats, LAMBDA st : st.teamId # vteamid)
  IN  IF Failed(linescore) THEN linescore
      ELSE IF ~HasActivePlayers(bs) THEN KeyError
      ELSE Body(
        << Section("Game Summary",
                   Table(<<>>, <<bs.basicGameData.officials.formatted>>)),
           Section("Line Score", Formatted(linescore)),
           Section("Team Stats", Text(bs.basicGameData.gameId)),
           Section("Team Leaders", Text(bs.basicGameData.gameId)),
           Section("Player Stats",
                   Table(<<>>, away_players \o home_players)) >>)

\* lines 229-232: the title is built first, then the body; what the method
\* can give is the exception of the first of the two to raise, or each
\* title with the body
build_postgame_thread_text(bs) ==
  LET titles == build_postgame_title(bs)
      body == build_boxscore_text(bs)
  IN  IF ValueError \in titles THEN {ValueError}
      ELSE IF body.kind # "body" THEN {body}
      ELSE { [kind |-> "thread", title |-> title, body |-> body] :
               title \in titles }

\* lines 78-82 of run(): the body of the thread the action asks for, or
\* the exception raised while the thread's title and body are built
build_body(action, bs, hroster, vroster, players) ==
  IF action = DO_GAME_THREAD
    THEN build_game_thread_text(bs, hroster, vroster, players)
    ELSE LET thread == CHOOSE th \in build_postgame_thread_text(bs) : TRUE
         IN  IF thread.kind = "thread" THEN thread.body ELSE thread

Player(id, name, pos, team) ==
  [personId |-> id, name |-> name, pos |-> pos, teamId |-> team]

\* two starters, a player off the bench, and two players who may sit out
Brunson == Player(1, "Jalen Brunson", <<"G">>, "NYK")
Tatum == Player(2, "Jayson Tatum", <<"F">>, "BOS")
Toppin == Player(3, "Obi Toppin", <<>>, "NYK")
Robinson == Player(4, "Mitchell Robinson", <<"C">>, "NYK")
Porzingis == Player(5, "Kristaps Porzingis", <<"F", "-", "C">>, "BOS")

\* nba_service.players(year)
AllPlayers == <<Brunson, Tatum, Toppin, Robinson, Porzingis>>

\* the same feed with a player listed twice
PlayersTwice == <<Brunson, Tatum, Toppin, Robinson, Robinson, Porzingis>>

StatsFeeds ==
  { [kind |-> "absent"] } \cup
  { [kind |-> "present", activePlayers |-> a] :
      a \in UNION { [1..n -> {Brunson, Tatum, Toppin}] : n \in 0..MaxPlayers } }

OneQuarter == <<[score |-> "25"]>>

\* the two teams' line scores: none yet, a quarter each, and the home
\* team's a quarter ahead of the visitors'
LineScorePairs ==
  { <<<<>>, <<>>>>, <<OneQuarter, OneQuarter>>,
    <<OneQuarter \o OneQuarter, OneQuarter>> }

\* the two teams' scores, the home team's first: both there, and one of
\* the two still empty
FinalScores ==
  { <<Decimal(25), Decimal(25)>>, <<Decimal(25), <<>>>>,
    <<<<>>, Decimal(25)>> }

BodyInputs ==
  { [kind |-> "render", action |-> a,
     hroster |-> hr, vroster |-> vr, players |-> pl,
     boxscore |->
       [stats |-> st,
        basicGameData |->
          [gameId |-> "0022000001",
           period |-> [current |-> <<"1">>],
           officials |-> [formatted |-> o],
           hTeam |-> [teamId |-> "NYK", fullName |-> "New York Knicks",
                      urlName |-> "knicks", win |-> "3", loss |-> "1",
                      score |-> sc[1], linescore |-> ls[1]],
           vTeam |-> [teamId |-> "BOS", fullName |-> "Boston Celtics",
                      urlName |-> "celtics", win |-> "2", loss |-> "2",
                      score |-> sc[2], linescore |-> ls[2]]]]] :
      a \in {DO_GAME_THREAD, DO_POST_GAME_THREAD},
      hr \in {<<>>, <<1, 3>>, <<1, 3, 4>>}, vr \in {<<>>, <<2>>, <<2, 5>>},
      st \in StatsFeeds,
      o \in {<<>>, <<"Scott Foster">>},
      ls \in LineScorePairs,
      sc \in FinalScores,
      pl \in {AllPlayers, PlayersTwice} }

BuildBody ==
  /\ cin.kind = "render"
  /\ cout.kind = "pending"
  /\ cout' = build_body(cin.action, cin.boxscore, cin.hroster, cin.vroster,
                        cin.players)
  /\ UNCHANGED <<clock, ticks, feed, boxscore, forum, runs, cin>>

BodyInit == World /\ cin \in BodyInputs /\ cout = Pending

BodyNext == BuildBody

BodySpec == BodyInit /\ [][BodyNext]_vars

Rendered == cin.kind = "render" /\ cout.kind = "body"
Headings == { cout.sections[i].heading : i \in 1..Len(cout.sections) }
SectionOf(heading) ==
  cout.sections[CHOOSE i \in 1..Len(cout.sections) :
                  cout.sections[i].heading = heading]

\* the data under each optional section
ActivePlayers ==
  IF HasActivePlayers(cin.boxscore) THEN cin.boxscore.stats.activePlayers
                                    ELSE <<>>
InactiveSet ==
  IF HasActivePlayers(cin.boxscore)
    THEN inactive_player_ids(cin.hroster, ActivePlayers)
           \cup inactive_player_ids(cin.vroster, ActivePlayers)
    ELSE {}
Officials == cin.boxscore.basicGameData.officials.formatted
LineScoreData == cin.boxscore.basicGameData.hTeam.linescore

\* C14 as stated: in the body of either thread an optional section is there
\* exactly when its data is not empty, and never as a heading over an empty
\* table or over a placeholder.
C14_AsStated ==
  Rendered =>
    IF cin.action = DO_GAME_THREAD
      THEN /\ "Starting lineups" \in Headings <=> ActivePlayers # <<>>
           /\ "Inactive" \in Headings <=> InactiveSet # {}
           /\ "Officials" \in Headings <=> Officials # <<>>
           /\ "Score" \in Headings <=> LineScoreData # <<>>
      ELSE /\ "Line Score" \in Headings <=> LineScoreData # <<>>
           /\ "Line Score" \in Headings =>
                SectionOf("Line Score").content.kind # "text"

----------------------------------------------------------------------------
(* One invocation against a forum that earlier invocations and other users
   have posted to *)

\* number of posts in the forum when the invocation starts
MaxPosts == 3

\* the title of tonight's game thread as rendered at an instant, and a title
\* of its post-game thread
EarlierGameTitle(now) ==
  Tokens(build_game_thread_title(Boxscore(FeedInit.standard[2]), now))
EarlierPostGameTitle ==
  Tokens(CHOOSE title \in build_postgame_title(Boxscore(Game(2, HOUR, Scored))) :
           title.defeat = "defeat")

\* their bodies, rendered from the first version of the boxscore
EarlierGameBody ==
  Render(DO_GAME_THREAD, 1, Boxscore(FeedInit.standard[2])).text
EarlierPostGameBody ==
  Render(DO_POST_GAME_THREAD, 1, Boxscore(Game(2, HOUR, Scored))).text

\* posts of an hour ago: a game thread and a post-game thread of the bot, a
\* game thread of another user; and a game thread of the bot that is a
\* second more than 6 hours old
EarlierPosts ==
  { Post(EarlierGameTitle(-HOUR), EarlierGameBody, BOT, -HOUR, 0, 0),
    Post(EarlierPostGameTitle, EarlierPostGameBody, BOT, -HOUR, 0, 0),
    Post(<<GAME_THREAD_PREFIX, "x">>, <<"x">>, FAN, -HOUR, 0, 0),
    Post(EarlierGameTitle(-(MAX_POST_AGE_HOURS * HOUR) - 1), EarlierGameBody,
         BOT, -(MAX_POST_AGE_HOURS * HOUR) - 1, 0, 0) }

\* the forum with its oldest posts pinned, one to a slot
Pinned(f) ==
  [k \in 1..Len(f) |->
     IF k <= STICKY_SLOTS THEN [f[k] EXCEPT !.stickied = TRUE, !.slot = k]
                          ELSE f[k]]

\* forums of earlier posts, none of them pinned or every slot taken
Unpinned == UNION { [1..n -> EarlierPosts] : n \in 0..MaxPosts }
Forums == Unpinned \cup { Pinned(f) : f \in { g \in Unpinned : Len(g) >= STICKY_SLOTS } }

FrameInit ==
  /\ clock = 0
  /\ ticks = 0
  /\ feed = FeedInit
  /\ boxscore = 1
  /\ forum \in Forums
  /\ runs = [r \in Runs |-> RunInit]
  /\ cin = NoInput
  /\ cout = Pending

\* the first invocation, alone
FrameNext == Environment \/ LaunchAlone(1) \/ Pipeline(1)

FrameSpec == FrameInit /\ [][FrameNext]_vars

\* the newest post of f with the prefix, by the bot, at most 6 hours old
NewestLive(f, q, now) ==
  IF LiveThreads(f, q, now) = {} THEN 0 ELSE Max(LiveThreads(f, q, now))

\* C15 as stated: a step of an invocation that changes the forum either
\* appends one post, every post there before staying as it is, or pins the
\* post this invocation appended, or edits the body of the newest post that
\* has the phase prefix, the bot as author and is at most 6 hours old; every
\* other post stays as it is, and an invocation edits once at most and never
\* both edits and submits.
C15_AsStated ==
  [][forum' # forum =>
       \E r \in Runs :
         /\ runs'[r] # runs[r]
         /\ \A o \in Runs \ {r} : runs'[o] = runs[o]
         /\ \/ /\ runs[r].pc = "act" /\ runs[r].writes = 0
               /\ Len(forum') = Len(forum) + 1
               /\ Kept(forum, forum')
               /\ forum'[Len(forum')].by = r
            \/ /\ runs[r].pc = "sticky" /\ runs[r].writes = 1
               /\ Len(forum') = Len(forum)
               /\ forum[runs[r].thread].by = r
               /\ KeptBut(forum, forum', runs[r].thread)
               /\ OnlyPinChanged(forum, forum', runs[r].thread)
            \/ /\ runs[r].pc = "act" /\ runs[r].writes = 0
               /\ runs'[r].pc = "exit"
               /\ Len(forum') = Len(forum)
               /\ runs[r].thread =
                    NewestLive(forum, runs[r].title[1], runs[r].now)
               /\ KeptBut(forum, forum', runs[r].thread)
               /\ OnlyBodyChanged(forum, forum', runs[r].thread)]_vars

\* C15 amended: the same, but that pinning the submitted post takes the pin
\* off the post in the bottom slot when every slot is taken; that post is
\* otherwise as it was, and every other post stays as it is.
C15_WritesOnePost ==
  [][forum' # forum =>
       \E r \in Runs :
         /\ runs'[r] # runs[r]
         /\ \A o \in Runs \ {r} : runs'[o] = runs[o]
         /\ \/ /\ runs[r].pc = "act" /\ runs[r].writes = 0
               /\ Len(forum') = Len(forum) + 1
               /\ Kept(forum, forum')
               /\ forum'[Len(forum')].by = r
            \/ /\ runs[r].pc = "sticky" /\ runs[r].writes = 1
               /\ Len(forum') = Len(forum)
               /\ forum[runs[r].thread].by = r
               /\ KeptButPins(forum, forum', runs[r].thread)
               /\ PinnedLast(forum, forum', runs[r].thread)
            \/ /\ runs[r].pc = "act" /\ runs[r].writes = 0
               /\ runs'[r].pc = "exit"
               /\ Len(forum') = Len(forum)
               /\ runs[r].thread =
                    NewestLive(forum, runs[r].title[1], runs[r].now)
               /\ KeptBut(forum, forum', runs[r].thread)
               /\ OnlyBodyChanged(forum, forum', runs[r].thread)]_vars

\* the invocation submitted a fourth post and pinned it, the two oldest
\* posts holding the two slots: the new post has the bottom slot, the second
\* post, a stale game thread of the bot, has lost its pin and is otherwise as
\* it was, the oldest keeps the top slot and another user's post is as it was
C15_Witness ==
  /\ Len(forum) = 4
  /\ runs[1].result = "created"
  /\ forum[4].by = 1 /\ forum[4].stickied /\ forum[4].slot = STICKY_SLOTS
  /\ forum[2] \in EarlierPosts /\ forum[2].author = BOT
  /\ forum[2].title[1] = forum[4].title[1]
  /\ forum[1].stickied /\ forum[1].slot = 1
  /\ [forum[1] EXCEPT !.stickied = FALSE, !.slot = 0] \in EarlierPosts
  /\ forum[3].author = FAN /\ forum[3] \in EarlierPosts

----------------------------------------------------------------------------
(* The body of the thread after an invocation *)

\* run r ends, having created, updated or left unchanged
Completes(r) ==
  Ends(r) /\ runs'[r].result \in {"created", "updated", "unchanged"}

\* the newest live post of run r's phase has, whitespace at the ends apart,
\* the body run r rendered
InSync(r, f) ==
  LET k == NewestLive(f, runs[r].title[1], runs[r].now)
  IN  k # 0 /\ strip(f[k].selftext) = strip(runs[r].body)

\* since run r listed the forum no other run has submitted a post, and the
\* post run r found has the body the listing showed, or the post run r
\* submitted the body it was submitted with
Undisturbed(r) ==
  /\ \A j \in 1..Len(forum) : j > runs[r].seen => forum[j].by = r
  /\ runs[r].thread # 0 /\ runs[r].pc = "act" =>
       forum[runs[r].thread].selftext = runs[r].selftext
  /\ runs[r].pc = "sticky" => forum[runs[r].thread].selftext = runs[r].body

\* C16 as stated: when an invocation ends having created, updated or left
\* unchanged, the newest live post of its phase has the body it rendered,
\* whitespace at the ends apart.
C16_AsStated ==
  [][\A r \in Runs : Completes(r) => InSync(r, forum')]_vars

\* C16 amended: the same, for an invocation during which no other
\* invocation wrote to the forum: none submitted a post after this one
\* listed the forum, and none changed the body of the post this one found
\* or submitted.
C16_BodyInSync ==
  [][\A r \in Runs : Completes(r) /\ Undisturbed(r) => InSync(r, forum')]_vars

\* one invocation created the thread and the next one, after the boxscore
\* changed, updated it: the newest post has the body rendered last
C16_Witness ==
  \E r \in Runs :
    /\ runs[r].result = "updated"
    /\ Len(forum) = 2
    /\ forum[2].by # r /\ runs[forum[2].by].result = "created"
    /\ forum[2].editedBy = {r}
    /\ \E act \in {DO_GAME_THREAD, DO_POST_GAME_THREAD} :
         forum[2].selftext =
           Render(act, Len(Bodies), Boxscore(feed.standard[2])).text
    /\ Live(forum[2], forum[2].title[1], clock)

----------------------------------------------------------------------------
(* The game thread of a game whose score never comes *)

\* the game after the feed's cursor, when there is one
FeedNext == feed.standard[feed.lastStandardGamePlayedIndex + 2]
HasFeedNext ==
  /\ feed.lastStandardGamePlayedIndex >= 0
  /\ feed.lastStandardGamePlayedIndex + 1 < Len(feed.standard)

\* post k is a game thread the bot submitted for the game: its title is the
\* one rendered for the game when it was submitted
IsGameThreadOf(f, k, game) ==
  /\ f[k].author = BOT
  /\ f[k].title = GameThreadTitle(game, f[k].created_utc)

\* every game thread of the bot is more than 6 hours old, and there is one
\* for the game
AllStale(f, game, now) ==
  /\ \E k \in 1..Len(f) : IsGameThreadOf(f, k, game)
  /\ \A k \in Candidates(f, GAME_THREAD_PREFIX) :
       f[k].created_utc + MaxPostAge < now

\* C17: with invocations one after the other, an invocation whose now is at
\* or after an hour before the start of the game after the cursor, that game
\* having no score, takes the game thread of that game as its action,
\* however long after the start; and when the bot has submitted a game
\* thread for that game and its game threads are all more than 6 hours old
\* for the invocation, it submits another game thread for the same game,
\* with the title rendered for the game at its now.
C17_SecondGameThread ==
  [][\A r \in Runs :
       /\ ( /\ StepsFrom(r, "fetch")
            /\ HasFeedNext /\ IsUnscored(FeedNext)
            /\ runs[r].now >= FeedNext.startTimeUTC - HOUR )
          => /\ runs'[r].action = DO_GAME_THREAD
             /\ runs'[r].game = FeedNext.gameId
       /\ ( /\ StepsFrom(r, "act")
            /\ runs[r].action = DO_GAME_THREAD
            /\ HasFeedNext /\ runs[r].game = FeedNext.gameId
            /\ AllStale(forum, FeedNext, runs[r].now) )
          => /\ Len(forum') = Len(forum) + 1
             /\ Kept(forum, forum')
             /\ forum'[Len(forum')].title =
                  GameThreadTitle(FeedNext, runs[r].now)
             /\ forum'[Len(forum')].author = BOT
             /\ forum'[Len(forum')].by = r]_vars

\* the game is still without a score and the cursor where it was; the bot
\* has submitted two game threads for it in two invocations running, the
\* second more than a day after the start of the game, on another date
\* than the first and so under another title
C17_Witness ==
  /\ HasFeedNext /\ IsUnscored(FeedNext)
  /\ feed.lastStandardGamePlayedIndex = 0
  /\ \E i, j \in 1..Len(forum) :
       /\ i < j
       /\ IsGameThreadOf(forum, i, FeedNext)
       /\ IsGameThreadOf(forum, j, FeedNext)
       /\ forum[j].title # forum[i].title
       /\ forum[j].created_utc > forum[i].created_utc + MaxPostAge
       /\ forum[j].created_utc > FeedNext.startTimeUTC + DAY
       /\ forum[j].by = forum[i].by + 1
       /\ forum[j].stickied

----------------------------------------------------------------------------
(* The sidebar (src/sidebarbot.py): update_reddit_descr.  Strings are
   sequences of characters. *)

\* number of pieces a description is put together from
MaxPieces == 4

\* s.startswith(sub, i), i counted from 0
MatchesAt(s, sub, i) ==
  i + Len(sub) <= Len(s) /\ SubSeq(s, i + 1, i + Len(sub)) = sub

\* s.find(sub): the lowest index, from 0, where sub occurs; -1 if nowhere
find(s, sub) ==
  LET hits == { i \in 0..Len(s) : MatchesAt(s, sub, i) }
  IN  IF hits = {} THEN -1 ELSE CHOOSE i \in hits : \A j \in hits : i <= j

\* s[a:b] of a str, for 0 <= a and 0 <= b
slice(s, a, b) == SubSeq(s, a + 1, Min2(b, Len(s)))

\* s.replace(old, new) for a non-empty old: every occurrence, left to right
RECURSIVE replace_each(_, _, _)
replace_each(s, old, new) ==
  IF find(s, old) = -1 THEN s
  ELSE slice(s, 0, find(s, old)) \o new
         \o replace_each(slice(s, find(s, old) + Len(old), Len(s)), old, new)

\* s.replace('', new): new before every character and at the end
RECURSIVE replace_empty(_, _)
replace_empty(s, new) ==
  IF s = <<>> THEN new ELSE new \o <<Head(s)>> \o replace_empty(Tail(s), new)

\* s.replace(old, new)
replace(s, old, new) ==
  IF old = <<>> THEN replace_empty(s, new) ELSE replace_each(s, old, new)

\* f'[](#Start{marker})' and f'[](#End{marker})'
StartMarker(marker) ==
  <<"[", "]", "(", "#", "S", "t", "a", "r", "t">> \o marker \o <<")">>
EndMarker(marker) == <<"[", "]", "(", "#", "E", "n", "d">> \o marker \o <<")">>

\* line 133
NewText(text, marker) ==
  StartMarker(marker) \o <<"\n", "\n">> \o text \o <<"\n", "\n">>
    \o EndMarker(marker)

\* lines 126-134
update_reddit_descr(descr, text, marker) ==
  LET start_marker == StartMarker(marker)
      start == find(descr, start_marker)
      end_marker == EndMarker(marker)
      end == find(descr, end_marker)
  IN  IF start = -1 \/ end = -1 THEN descr
      ELSE replace(descr, slice(descr, start, end + Len(end_marker)),
                   NewText(text, marker))

Roster == <<"R", "o", "s", "t", "e", "r">>

\* what a description is put together from: the two markers, text
DescrPieces == { StartMarker(Roster), EndMarker(Roster), <<"a">>, <<"b", "\n">> }

RECURSIVE Concat(_)
Concat(pieces) ==
  IF pieces = <<>> THEN <<>> ELSE Head(pieces) \o Concat(Tail(pieces))

Descriptions == { Concat(ps) : ps \in UNION { [1..n -> DescrPieces] : n \in 0..MaxPieces } }

DescrInputs ==
  { [kind |-> "descr", descr |-> d, text |-> t, marker |-> Roster] :
      d \in Descriptions, t \in {<<>>, <<"a">>, <<"N", "o", ".">>} }

UpdateRedditDescr ==
  /\ cin.kind = "descr"
  /\ cout.kind = "pending"
  /\ cout' = [kind |-> "descr",
              descr |-> update_reddit_descr(cin.descr, cin.text, cin.marker)]
  /\ UNCHANGED <<clock, ticks, feed, boxscore, forum, runs, cin>>

DescrInit == World /\ cin \in DescrInputs /\ cout = Pending

DescrNext == UpdateRedditDescr

DescrSpec == DescrInit /\ [][DescrNext]_vars

DescrUpdated == cin.kind = "descr" /\ cout.kind = "descr"
FirstStart == find(cin.descr, StartMarker(cin.marker))
FirstEnd == find(cin.descr, EndMarker(cin.marker))

\* g is f with the characters from a to b (counted from 0, b not included)
\* replaced by new
SpanReplaced(f, g, a, b, new) ==
  g = slice(f, 0, a) \o new \o slice(f, b, Len(f))

\* C18 as stated: without one of the markers the description comes back as
\* it is; with both, the result is the description with one span replaced by
\* start marker, blank line, text, blank line, end marker, all before and
\* after the span as it was: the span from the first start marker through
\* the first end marker when the end marker comes after the start marker.
C18_AsStated ==
  DescrUpdated =>
    IF FirstStart = -1 \/ FirstEnd = -1
      THEN cout.descr = cin.descr
      ELSE /\ \E a, b \in 0..Len(cin.descr) :
                /\ a <= b
                /\ SpanReplaced(cin.descr, cout.descr, a, b,
                                NewText(cin.text, cin.marker))
           /\ FirstStart < FirstEnd =>
                SpanReplaced(cin.descr, cout.descr, FirstStart,
                             FirstEnd + Len(EndMarker(cin.marker)),
                             NewText(cin.text, cin.marker))

----------------------------------------------------------------------------
(* The sidebar's schedule table: build_schedule *)

\* longest schedule tried
MaxSeason == 14

\* range(a, b)
range(a, b) == [k \in 1..Max({0, b - a}) |-> a + k - 1]

\* lines 137-141
winloss(knicks_score, opp_score) ==
  IF ~IsInt(knicks_score.score) \/ ~IsInt(opp_score.score) THEN ValueError
  ELSE
  LET kscore == int(knicks_score.score)
      oscore == int(opp_score.score)
  IN  IF kscore > oscore
        THEN [outcome |-> "W", first |-> kscore, second |-> oscore]
        ELSE [outcome |-> "L", first |-> oscore, second |-> kscore]

\* lines 59-85: the row of one game; days are counted, today being a day
ScheduleRow(game, today) ==
  LET knicks_score == IF game.isHomeTeam THEN game.hTeam ELSE game.vTeam
      opp_score == IF game.isHomeTeam THEN game.vTeam ELSE game.hTeam
      time_or_score == IF knicks_score.score = <<>>
                         THEN [outcome |-> "", first |-> game.day,
                               second |-> 0]
                         ELSE winloss(knicks_score, opp_score)
  IN  IF Raised(time_or_score) THEN ValueError ELSE
      [kind |-> "row",
       date |-> IF game.day = today THEN "Today"
                ELSE IF game.day = today - 1 THEN "Yesterday"
                ELSE IF game.day = today + 1 THEN "Tomorrow"
                ELSE "%b %d",
       opp_team_sub |-> opp_score.teamId,
       loc |-> IF game.isHomeTeam THEN "Home" ELSE "Away",
       time_or_score |-> time_or_score]

\* lines 41-87
build_schedule(schedule, today) ==
  LET last_played_idx == schedule.lastStandardGamePlayedIndex
      end_idx == Min2(last_played_idx + 7, Len(schedule.standard))
      start_idx ==
        Max({0, last_played_idx - (4 + (7 - (end_idx - last_played_idx - 1)))})
      listed == range(start_idx, end_idx)
      rows == [k \in 1..Len(listed) |->
                 ScheduleRow(PyGet(schedule.standard, listed[k]), today)]
  IN  IF \E k \in 1..Len(rows) : Raised(rows[k]) THEN ValueError
      ELSE [kind |-> "rows",
            rows |-> << [kind |-> "header"], [kind |-> "align"] >> \o rows]

\* a season of n games, one a day, played up to the cursor; the opponent of
\* game i is team i, the Knicks are team 0 and at home every other game;
\* of game half the feed has the Knicks' score and not yet the opponent's
SeasonGame(i, last, half) ==
  LET knicks == [teamId |-> 0,
                 score |-> IF i <= last THEN <<"1", "0", "2">> ELSE <<>>]
      opp == [teamId |-> i,
              score |-> IF i <= last /\ i # half THEN <<"9", "9">> ELSE <<>>]
  IN  [day |-> i, isHomeTeam |-> (i % 2 = 0),
       hTeam |-> IF i % 2 = 0 THEN knicks ELSE opp,
       vTeam |-> IF i % 2 = 0 THEN opp ELSE knicks]

Season(n, last, half) ==
  [kind |-> "schedule", today |-> last + 1,
   schedule |->
     [lastStandardGamePlayedIndex |-> last,
      standard |-> [k \in 1..n |-> SeasonGame(k - 1, last, half)]]]

ScheduleInputs ==
  UNION { { Season(n, last, -1) : last \in (-1)..(n - 1) }
            \cup { Season(n, last, last) : last \in 0..(n - 1) } :
          n \in 0..MaxSeason }

BuildSchedule ==
  /\ cin.kind = "schedule"
  /\ cout.kind = "pending"
  /\ cout' = build_schedule(cin.schedule, cin.today)
  /\ UNCHANGED <<clock, ticks, feed, boxscore, forum, runs, cin>>

ScheduleInit == World /\ cin \in ScheduleInputs /\ cout = Pending

ScheduleNext == BuildSchedule

ScheduleSpec == ScheduleInit /\ [][ScheduleNext]_vars

Scheduled == cin.kind = "schedule" /\ cout.kind = "rows"
Cursor == cin.schedule.lastStandardGamePlayedIndex
SeasonLength == Len(cin.schedule.standard)
\* the indices of the games listed: game i is the one against team i
ListedGames ==
  { cout.rows[k].opp_team_sub : k \in 3..Len(cout.rows) }

\* C19 as stated: 12 games are listed, the one at the cursor, the 4 before
\* it and the 7 after it, when the schedule has them; with fewer than 7
\* games after the cursor and 12 games in all up to the end, the last 12; no
\* index below 0 or past the end.
C19_AsStated ==
  Scheduled =>
    /\ Cursor >= 4 /\ SeasonLength - Cursor - 1 >= 7 =>
         ListedGames = (Cursor - 4)..(Cursor + 7)
    /\ SeasonLength - Cursor - 1 < 7 /\ SeasonLength >= 12 =>
         ListedGames = (SeasonLength - 12)..(SeasonLength - 1)
    /\ \A i \in ListedGames : 0 <= i /\ i < SeasonLength

====
